---------------------------- MODULE Spec2Model ----------------------------
(***************************************************************************)
(* Model of the company merge endpoint                                     *)
(*   src/app/api/v1/companies/merge/route.ts  (POST)                       *)
(* with its collaborators: the metering gate (src/lib/autumn.ts), the CRM  *)
(* credential detector and client factory (src/lib/crm/types.ts) and the   *)
(* HubSpot client (src/lib/crm/hubspot.ts).                                *)
(*                                                                         *)
(* One request is followed from its arrival to its response.  Every await  *)
(* of the handler is one action; the answer of the awaited collaborator    *)
(* (inference output, search result, store status, gate answer) is chosen  *)
(* nondeterministically inside the action.  Every external call is         *)
(* appended to the log `calls` in the order the handler issues it.         *)
(*                                                                         *)
(* JavaScript values whose type decides a branch (headers, body fields)    *)
(* are tagged records [t |-> type, v |-> value]; strings are sequences of  *)
(* one-character strings so that trim() is computed, not assumed.          *)
(***************************************************************************)
EXTENDS Integers, Sequences, FiniteSets, TLC

(***************************************************************************)
(* Bounds                                                                  *)
(***************************************************************************)
NumIds == 3          \* record ids known to the record store: "1".."NumIds"
MaxResults == 2      \* longest result list the search returns
MaxFilters == 1      \* most filter values the filter inference returns
MaxLen == 3          \* longest string given to the filter sanitizer
MaxRuns == 2         \* most runs of equal characters in a rule given to sanitizeRule
NumRequests == 2     \* merge requests whose schema builds interleave
MaxPropertyRules == 1  \* most entries of a mergePropertyRules object
NumCallers == 2      \* concurrent limit() calls for one identifier
MaxLimit == 2        \* largest maxRequests given to limit()
MaxWindow == 1       \* longest window given to limit(), in seconds
MaxTicks == 2        \* seconds that pass while the limit() calls run
NumClients == 2      \* concurrent requests that follow the idempotency protocol
MaxBalance == 3      \* largest credit balance of the user at the start
MaxAdvances == 2     \* times the clock advances during the idempotency protocol

(***************************************************************************)
(* JavaScript values                                                       *)
(***************************************************************************)
Undef == [t |-> "undefined"]
Null == [t |-> "null"]
Bool(b) == [t |-> "boolean", v |-> b]
Str(s) == [t |-> "string", v |-> s]
Num(n) == [t |-> "number", v |-> n]
Obj(o) == [t |-> "object", v |-> o]

\* typeof x
TypeOf(x) == IF x.t = "null" THEN "object" ELSE x.t

\* ToBoolean(x): the truthiness used by `!x`, `if (x)` and `x || y`
Truthy(x) ==
  CASE x.t = "undefined" -> FALSE
    [] x.t = "null" -> FALSE
    [] x.t = "boolean" -> x.v
    [] x.t = "string" -> Len(x.v) > 0
    [] x.t = "number" -> x.v # 0
    [] OTHER -> TRUE

RECURSIVE TrimStart(_)
TrimStart(s) == IF s # <<>> /\ Head(s) = " " THEN TrimStart(Tail(s)) ELSE s

RECURSIVE TrimEnd(_)
TrimEnd(s) ==
  IF s # <<>> /\ s[Len(s)] = " " THEN TrimEnd(SubSeq(s, 1, Len(s) - 1)) ELSE s

\* String.prototype.trim
Trim(s) == TrimEnd(TrimStart(s))

(***************************************************************************)
(* The filter sanitizer (spec 4.2), on strings as sequences of characters  *)
(***************************************************************************)
\* (a) the structural characters stripped from the end of a value
StructuralChars == {"{", "}", "[", "]", ",", "\"", "'"}

\* (b) the characters from the first of which onward a value is cut
CutChars == {":", "/", "?", "#", "&"}

\* (c) the protocols stripped from the start of a value
HttpPrefix == <<"h", "t", "t", "p", ":", "/", "/">>
HttpsPrefix == <<"h", "t", "t", "p", "s", ":", "/", "/">>

\* (a) strip trailing structural characters
RECURSIVE StripTrailing(_)
StripTrailing(s) ==
  IF s # <<>> /\ s[Len(s)] \in StructuralChars
  THEN StripTrailing(SubSeq(s, 1, Len(s) - 1))
  ELSE s

\* (b) remove everything from the first of : / ? # & onward
RECURSIVE CutAtDelimiter(_)
CutAtDelimiter(s) ==
  IF s = <<>> \/ Head(s) \in CutChars THEN <<>>
  ELSE <<Head(s)>> \o CutAtDelimiter(Tail(s))

StartsWith(s, prefix) ==
  Len(s) >= Len(prefix) /\ SubSeq(s, 1, Len(prefix)) = prefix

\* (c) strip a leading http:// or https://
StripProtocol(s) ==
  IF StartsWith(s, HttpPrefix) THEN SubSeq(s, Len(HttpPrefix) + 1, Len(s))
  ELSE IF StartsWith(s, HttpsPrefix) THEN SubSeq(s, Len(HttpsPrefix) + 1, Len(s))
  ELSE s

\* sanitize(v): null is passed through, a string goes through (a), (b), (c)
\* and (d), the trim, in this order
Sanitize(v) ==
  IF v = Null THEN Null
  ELSE Str(Trim(StripProtocol(CutAtDelimiter(StripTrailing(v.v)))))

(***************************************************************************)
(* sanitizeRule (validation.ts). A rule text is a sequence of runs         *)
(* [c, n], n >= 1 copies of the character c, so that texts longer than     *)
(* MAX_RULE_LENGTH are values of the model                                 *)
(***************************************************************************)
\* validation.ts:9
MAX_RULE_LENGTH == 2000

Run(c, n) == [c |-> c, n |-> n]

\* rule.length
RECURSIVE RunLength(_)
RunLength(s) == IF s = <<>> THEN 0 ELSE Head(s).n + RunLength(Tail(s))

RECURSIVE TrimRunsStart(_)
TrimRunsStart(s) ==
  IF s # <<>> /\ Head(s).c = " " THEN TrimRunsStart(Tail(s)) ELSE s

RECURSIVE TrimRunsEnd(_)
TrimRunsEnd(s) ==
  IF s # <<>> /\ s[Len(s)].c = " "
  THEN TrimRunsEnd(SubSeq(s, 1, Len(s) - 1))
  ELSE s

\* rule.trim()
TrimRuns(s) == TrimRunsEnd(TrimRunsStart(s))

\* rule.substring(0, k)
RECURSIVE Substring0(_, _)
Substring0(s, k) ==
  IF s = <<>> \/ k = 0 THEN <<>>
  ELSE IF Head(s).n <= k
       THEN <<Head(s)>> \o Substring0(Tail(s), k - Head(s).n)
       ELSE <<Run(Head(s).c, k)>>

\* rule.replace(/[...]/g, ''): every character of the class is removed
RECURSIVE RemoveChars(_, _)
RemoveChars(s, class) ==
  IF s = <<>> THEN <<>>
  ELSE IF Head(s).c \in class THEN RemoveChars(Tail(s), class)
       ELSE <<Head(s)>> \o RemoveChars(Tail(s), class)

\* validation.ts:59-81; the last branch is the replace chain of lines 76-80
\* (JSON syntax characters, HTML tag characters, backslashes) and the trim
sanitizeRule(r) ==
  IF ~Truthy(r) \/ TypeOf(r) # "string" THEN Undef
  ELSE LET trimmed == TrimRuns(r.v)
       IN IF RunLength(trimmed) = 0 THEN Undef
          ELSE IF RunLength(trimmed) > MAX_RULE_LENGTH
          THEN Str(Substring0(trimmed, MAX_RULE_LENGTH))
          ELSE Str(TrimRuns(
                 RemoveChars(RemoveChars(RemoveChars(trimmed,
                                                     {"{", "}", "[", "]"}),
                                         {"<", ">"}),
                             {"\\"})))

\* variant of FilterOutId: the current record is not filtered out
FilterOutIdMut(s, id) == s

\* duplicates.filter((dup) => dup.id !== id); a record is modelled by its id
RECURSIVE FilterOutId(_, _)
FilterOutId(s, id) ==
  IF s = <<>> THEN <<>>
  ELSE IF Head(s) # id THEN <<Head(s)>> \o FilterOutId(Tail(s), id)
       ELSE FilterOutId(Tail(s), id)

\* { ...a, ...b }: the keys of b override the keys of a
Spread(a, b) ==
  [k \in DOMAIN a \cup DOMAIN b |-> IF k \in DOMAIN b THEN b[k] ELSE a[k]]

(***************************************************************************)
(* Value domains of the request and of the collaborators' answers          *)
(***************************************************************************)
\* ids of company records, as the record store returns them (strings)
Ids == { <<ToString(i)>> : i \in 1..NumIds }

\* x-api-key header: absent (headers.get gives null), empty, or a key
ApiKeyHeaders == {Null, Str(<<>>), Str(<<"k">>)}

\* the CRM credential header that is present, if any
CrmHeaders == {"none", "hubspot", "attio"}

\* body.company
CompanyValues == {Undef, Null, Str(<<"a">>), Obj("company")}

\* body.recordId
RecordIdValues ==
  {Undef, Num(1), Str(<<>>), Str(<<" ">>)} \cup { Str(i) : i \in {<<"1">>, <<"2">>} }

\* body.mergeRecord
MergeRecordValues == {Undef, Null, Bool(FALSE), Bool(TRUE), Str(<<"n", "o">>)}

\* req.json(): it rejects (InvalidJson), or gives null, or gives an object
\* with the fields the handler reads
InvalidJson == [t |-> "invalid-json"]
Bodies ==
  {InvalidJson, Null} \cup
  { Obj([company |-> c, recordId |-> r, mergeRecord |-> m]) :
      c \in CompanyValues, r \in RecordIdValues, m \in MergeRecordValues }

\* result lists of the record store search: any list of ids, the current one included
RECURSIVE SeqsUpTo(_, _)
SeqsUpTo(S, n) ==
  IF n = 0 THEN {<<>>}
  ELSE LET shorter == SeqsUpTo(S, n - 1)
       IN shorter \cup { Append(s, x) : s \in {q \in shorter : Len(q) = n - 1}, x \in S }

SearchResults == SeqsUpTo(Ids, MaxResults)

\* literal values of the filters in a DUPLICATE_SEARCH_SCHEMA object: null
\* for a filter without a literal, a clean value, a value with stray syntax
FilterValues == {Null, Str(<<"a">>), Str(<<"a", "}">>)}

\* the `value`s of duplicateSearch.filterGroups[*].filters[*], flattened
FilterLists == SeqsUpTo(FilterValues, MaxFilters)

\* values given to the filter sanitizer: null, every string of at most MaxLen
\* characters over a plain character, a structural one, a delimiter and a
\* blank, short values behind a protocol, and the value of the spec's scenario
SanChars == {"a", "}", ":", " "}
ScenarioValue == <<"a", "}", "]", "}", ",", "{">>
SanInputs ==
  {Null}
    \cup { Str(s) : s \in SeqsUpTo(SanChars, MaxLen) }
    \cup { Str(prefix \o s) : prefix \in {HttpPrefix, HttpsPrefix},
                              s \in SeqsUpTo(SanChars, 1) }
    \cup { Str(ScenarioValue) }

\* values given to sanitizeRule: undefined, a non-string, and every text of
\* at most MaxRuns runs of one or of MAX_RULE_LENGTH copies of a plain
\* character, a blank or one of the characters that sanitizeRule removes
RuleInputs ==
  {Undef, Num(1)} \cup
  { Str(s) :
      s \in SeqsUpTo({ Run(c, n) :
                         c \in {"a", " ", "{", "}", "[", "]", "<", ">", "\\"},
                         n \in {1, MAX_RULE_LENGTH} },
                     MaxRuns) }

\* objects that conform to MERGE_DECISION_SCHEMA (strict structured output)
Decisions ==
  { [recommendedAction |-> a, reasoning |-> "model reasoning",
     confidence |-> c, primaryRecordId |-> p] :
      a \in {"MERGE", "KEEP"}, c \in {"LOW", "HIGH"}, p \in Ids }

\* objects that conform to MERGE_FIELD_SCHEMA: the plan is a set of properties
Props == {"phone", "website"}
FieldMerges ==
  { [primaryRecordPropertiesToUpdate |-> P, reasoning |-> "model reasoning",
     confidence |-> "HIGH"] : P \in SUBSET Props }

\* what a chat completion can come back as
InferenceOutcomes == {"ok", "empty", "unparsable", "throws"}

\* what a raw fetch() to the record store can come back as
FetchOutcomes == {"ok", "notok", "throws"}

\* text of an upstream error body
UpstreamErrors == {"e1", "e2"}

(***************************************************************************)
(* State                                                                   *)
(***************************************************************************)
VARIABLES
  pc,               \* the await the handler is at
  req,              \* the request: headers and body
  calls,            \* external calls issued so far, in order, with their outcome
  resp,             \* the response, status 0 while none has been sent
  duplicateSearch,  \* route.ts:278, the filter values of the parsed stage 1 answer
  duplicates,       \* route.ts:313, ids of the records the search returned
  otherDuplicates,  \* route.ts:316
  mergeDecision,    \* route.ts:397
  fieldMerge,       \* route.ts:504
  totalAiUsage,     \* route.ts:235, the stages whose usage has been recorded
  recordUpdated,    \* route.ts:516
  recordMerged,     \* route.ts:515
  san,              \* the filter sanitizer applied to a value, once and twice
  rule,             \* sanitizeRule applied to a value
  sch,              \* the schema templates and the schemas built from them
  lim,              \* the rate limiter: its store, the clock and the callers
  idem,             \* the idempotency store and the requests that use it
  ledger,           \* the credit ledger and the merge requests it meters
  clean             \* a request to the clean endpoint

vars == <<pc, req, calls, resp, duplicateSearch, duplicates, otherDuplicates,
          mergeDecision, fieldMerge, totalAiUsage, recordUpdated, recordMerged,
          san, rule, sch, lim, idem, ledger, clean>>

\* the state of the library components the merge handler does not call
components == <<san, rule, sch, lim, idem, ledger, clean>>

locals == <<duplicateSearch, duplicates, otherDuplicates, mergeDecision,
            fieldMerge, totalAiUsage, recordUpdated, recordMerged>>

NoResponse == [status |-> 0]
NoDecision == [recommendedAction |-> "NONE"]
NoFieldMerge == [confidence |-> "NONE"]
NotSanitizing == [step |-> 0, in |-> Null, out |-> Null, out2 |-> Null]
\* a component that is not in use
Off == [on |-> FALSE]

\* one external call: op, the inference stage or tracked amount (n), the
\* record ids it names (id, id2), the list and the properties it carries,
\* whether it returned successfully (ok), the filter values of a search, and
\* whether the callee has answered at all (answered)
Call(op, n, id, id2, list, props, ok) ==
  [op |-> op, n |-> n, id |-> id, id2 |-> id2, list |-> list, props |-> props,
   ok |-> ok, filters |-> <<>>, answered |-> TRUE]

\* openai.chat.completions.create of a stage; list is the duplicateRecords input
Inference(stage, list, ok) == Call("inference", stage, <<>>, <<>>, list, {}, ok)
\* supabase.from("api_keys").select(...).eq("key", apiKey).single()
LookupKey(ok) == Call("lookupKey", 0, <<>>, <<>>, <<>>, {}, ok)
\* supabase.from("api_keys").update({ last_used })
TouchKey == Call("touchKey", 0, <<>>, <<>>, <<>>, {}, TRUE)
\* checkFeatureAccess(userId, "api_credits")
CheckAccess == Call("check", 0, <<>>, <<>>, <<>>, {}, TRUE)
\* checkFeatureAccess before the pipeline, with its answer access.allowed
GateCheck(allowed) == Call("check", 0, <<>>, <<>>, <<>>, {}, allowed)
\* trackFeatureUsage(userId, "api_credits", n)
TrackUsage(n, ok) == Call("track", n, <<>>, <<>>, <<>>, {}, ok)
\* POST /crm/v3/objects/companies/search { filterGroups, properties, limit }
SearchCall(filters, ok) ==
  [Call("search", 0, <<>>, <<>>, <<>>,
        {"name", "domain", "website", "phone", "city", "state", "zip",
         "country", "address", "linkedin", "createdate"},
        ok) EXCEPT !.filters = filters]
\* crmClient.getCompany(id)
FetchCall(id, ok) == Call("fetch", 0, id, <<>>, <<>>, {}, ok)
\* crmClient.updateCompany({ recordId: id, properties: props })
UpdateCall(id, props, ok) == Call("update", 0, id, <<>>, <<>>, props, ok)
\* variant of MergeCall: primaryObjectId and objectIdToMerge are swapped
MergeCallMut(primary, merged, ok) == Call("merge", 0, merged, primary, <<>>, {}, ok)

\* POST /crm/v3/objects/companies/merge { primaryObjectId, objectIdToMerge }
MergeCall(primary, merged, ok) == Call("merge", 0, primary, merged, <<>>, {}, ok)

\* NextResponse.json(body, { status })
Respond(status, body) == [status |-> status, body |-> body]

\* variant of InternalError: the { status: 500 } option is missing
InternalErrorMut == Respond(200, [error |-> "Internal server error"])

\* the outer catch of the handler (route.ts:632)
InternalError == Respond(500, [error |-> "Internal server error"])

\* the validated recordId of the body (a string once validation has passed)
recordId == req.body.v.recordId.v

\* variant of mergeRecord: the default is true
mergeRecordMut ==
  IF req.body.v.mergeRecord = Undef THEN Bool(TRUE) ELSE req.body.v.mergeRecord

\* `mergeRecord = false` in the destructuring: the default replaces undefined only
mergeRecord ==
  IF req.body.v.mergeRecord = Undef THEN Bool(FALSE) ELSE req.body.v.mergeRecord

Init ==
  /\ pc = "ApiKey"
  /\ req \in [apiKey : ApiKeyHeaders, crm : CrmHeaders, body : Bodies]
  /\ calls = <<>>
  /\ resp = NoResponse
  /\ duplicateSearch = <<>>
  /\ duplicates = <<>>
  /\ otherDuplicates = <<>>
  /\ mergeDecision = NoDecision
  /\ fieldMerge = NoFieldMerge
  /\ totalAiUsage = {}
  /\ recordUpdated = FALSE
  /\ recordMerged = FALSE
  /\ san = NotSanitizing
  /\ rule = Off
  /\ sch = Off
  /\ lim = Off
  /\ idem = Off
  /\ ledger = Off
  /\ clean = Off

\* the handler returns a response and ends
Return(r) == /\ resp' = r
             /\ pc' = "Done"

(***************************************************************************)
(* The handler, one action per await                                       *)
(***************************************************************************)

\* route.ts:151-177: the x-api-key header and the api_keys lookup
ValidateApiKey ==
  /\ pc = "ApiKey"
  /\ UNCHANGED <<components, req, locals>>
  /\ IF ~Truthy(req.apiKey)
     THEN /\ Return(Respond(401, [error |-> "API key required"]))
          /\ UNCHANGED calls
     ELSE \E found \in BOOLEAN :
            /\ calls' = Append(calls, LookupKey(found))
            /\ IF found
               THEN pc' = "Gate" /\ UNCHANGED resp
               ELSE Return(Respond(401, [error |-> "Invalid API key"]))

\* route.ts:179-187: checkFeatureAccess before the pipeline
Gate ==
  /\ pc = "Gate"
  /\ UNCHANGED <<components, req, locals>>
  /\ \E allowed \in BOOLEAN :
       /\ calls' = Append(calls, GateCheck(allowed))
       /\ IF allowed
          THEN pc' = "Body" /\ UNCHANGED resp
          ELSE Return(Respond(403, [error |-> "Insufficient credits"]))

\* variant of CrmCredentialsMissing: only the HubSpot header is looked for
\* and its absence is not rejected
CrmCredentialsMissingMut == FALSE

\* route.ts:226-227: detectCRMFromHeaders found no x-{provider}-api-key header
CrmCredentialsMissing == req.crm = "none"

\* route.ts:189-242: body parsing, field validation, CRM credential
\* detection and getOpenAIClient(); no external call is issued here
ParseBody ==
  /\ pc = "Body"
  /\ UNCHANGED <<components, req, calls, locals>>
  /\ \E openaiConfigured \in BOOLEAN :
       CASE req.body = InvalidJson ->
              Return(Respond(400, [error |-> "Invalid JSON in request body"]))
         [] req.body = Null ->
              \* destructuring null throws a TypeError, caught at route.ts:632
              Return(InternalError)
         [] OTHER ->
              LET company == req.body.v.company
                  rid == req.body.v.recordId
              IN IF ~Truthy(company) \/ TypeOf(company) # "object"
                 THEN Return(Respond(400, [error |-> "Company object is required"]))
                 ELSE IF ~Truthy(rid) \/ TypeOf(rid) # "string" \/ Trim(rid.v) = <<>>
                 THEN Return(Respond(400, [error |-> "recordId is required"]))
                 ELSE IF CrmCredentialsMissing
                 THEN Return(Respond(400, [error |-> "CRM API key required"]))
                 ELSE IF ~openaiConfigured
                 THEN Return(InternalError)
                 ELSE pc' = "Step1" /\ UNCHANGED resp

\* variant of AfterInferenceFailure: the stages completed before are tracked
AfterInferenceFailureMut(stage) ==
  IF stage > 1 THEN <<TrackUsage(stage - 1, TRUE)>> ELSE <<>>

\* route.ts:271-276, 390-395, 497-502, 632-637: the calls issued between a
\* failed inference of a stage and the failure response: none
AfterInferenceFailure(stage) == <<>>

\* the call log after the inference of a stage has come back
AfterInference(stage, list, outcome) ==
  Append(calls, Inference(stage, list, outcome = "ok"))
    \o (IF outcome = "ok" THEN <<>> ELSE AfterInferenceFailure(stage))

\* route.ts:244-285: stage 1, the filter inference
Step1DuplicateSearch ==
  /\ pc = "Step1"
  /\ UNCHANGED <<components, req, duplicates, otherDuplicates, mergeDecision, fieldMerge,
                 recordUpdated, recordMerged>>
  /\ \E outcome \in InferenceOutcomes :
       /\ calls' = AfterInference(1, <<>>, outcome)
       /\ CASE outcome = "ok" ->
                 \E parsed \in FilterLists :
                   /\ duplicateSearch' = parsed
                   /\ totalAiUsage' = totalAiUsage \cup {1}
                   /\ pc' = "Search"
                   /\ UNCHANGED resp
            [] outcome = "empty" ->
                 /\ Return(Respond(500,
                      [error |-> "Failed to generate duplicate search filters"]))
                 /\ UNCHANGED <<duplicateSearch, totalAiUsage>>
            [] OTHER ->
                 \* the call rejects, or JSON.parse throws: route.ts:632
                 /\ Return(InternalError)
                 /\ UNCHANGED <<duplicateSearch, totalAiUsage>>

\* route.ts:304-310, 530-539, 558-574: the error bodies of the record store
\* failures; e is the text of the store's error response (or of the thrown
\* error), which the template literal puts after the fixed message
StoreFailureBody(kind, e) ==
  CASE kind = "search" -> [error |-> "CRM search failed", detail |-> e]
    [] kind = "update" ->
         [error |-> "Failed to update primary record in CRM", detail |-> e]
    [] kind = "merge" -> [error |-> "CRM merge failed", detail |-> e]
    [] OTHER -> [error |-> "Failed to merge records in CRM", detail |-> e]

\* a fetch() without timeout or abort signal whose callee never answers: the
\* await never resumes and the handler sends no response
\* (route.ts:288, 543; hubspot.ts:22, 101)
NeverAnswered(call) ==
  /\ calls' = Append(calls, [call EXCEPT !.ok = FALSE, !.answered = FALSE])
  /\ pc' = "Awaiting"
  /\ UNCHANGED resp

\* route.ts:296-297: `filterGroups: duplicateSearch.filterGroups`, the values
\* of the parsed answer are put into the search request as they are
SearchFilters(parsed) == parsed

\* variant of NextAfterSearch: no early return
NextAfterSearchMut(others) == "Step2"

\* route.ts:319: `if (otherDuplicates.length === 0)` returns early
NextAfterSearch(others) == IF Len(others) = 0 THEN "EarlyExit" ELSE "Step2"

\* route.ts:287-319: the record store search and the filter of the current record
Search ==
  /\ pc = "Search"
  /\ UNCHANGED <<components, req, duplicateSearch, mergeDecision, fieldMerge, totalAiUsage,
                 recordUpdated, recordMerged>>
  /\ \/ /\ NeverAnswered(SearchCall(SearchFilters(duplicateSearch), FALSE))
        /\ UNCHANGED <<duplicates, otherDuplicates>>
     \/ \E outcome \in FetchOutcomes :
       /\ calls' = Append(calls,
            SearchCall(SearchFilters(duplicateSearch), outcome = "ok"))
       /\ CASE outcome = "ok" ->
                 \E results \in SearchResults :
                   /\ duplicates' = results
                   /\ otherDuplicates' = FilterOutId(results, recordId)
                   /\ pc' = NextAfterSearch(otherDuplicates')
                   /\ UNCHANGED resp
            [] outcome = "notok" ->
                 \E e \in UpstreamErrors :
                   /\ Return(Respond(500, StoreFailureBody("search", e)))
                   /\ UNCHANGED <<duplicates, otherDuplicates>>
            [] OTHER ->
                 /\ Return(InternalError)
                 /\ UNCHANGED <<duplicates, otherDuplicates>>

\* variant of AfterTrack: one credit too many is tracked
AfterTrackMut(n) == calls \o <<TrackUsage(n + 1, TRUE), TouchKey, CheckAccess>>

\* the calls of an exit whose trackFeatureUsage(n) succeeds: the tracking,
\* the last_used update and the second checkFeatureAccess
\* (route.ts:321-328, 410-417, 579-586)
AfterTrack(n) == calls \o <<TrackUsage(n, TRUE), TouchKey, CheckAccess>>

\* variant of EarlyExitBody: duplicatesFound computed from the unfiltered list
EarlyExitBodyMut ==
  [recordId |-> recordId,
   duplicatesFound |-> Len(duplicates) > 0,
   duplicateCount |-> 0,
   duplicates |-> <<>>,
   recommendedAction |-> "KEEP",
   reasoning |-> "No duplicate records found in CRM search",
   confidence |-> "HIGH",
   creditCost |-> 1,
   recordMerged |-> FALSE,
   aiUsage |-> totalAiUsage]

\* route.ts:333-355: the body of the early-exit response
EarlyExitBody ==
  [recordId |-> recordId,
   duplicatesFound |-> FALSE,
   duplicateCount |-> 0,
   duplicates |-> <<>>,
   recommendedAction |-> "KEEP",
   reasoning |-> "No duplicate records found in CRM search",
   confidence |-> "HIGH",
   creditCost |-> 1,
   recordMerged |-> FALSE,
   aiUsage |-> totalAiUsage]

\* route.ts:319-356: no other duplicates
EarlyExit ==
  /\ pc = "EarlyExit"
  /\ UNCHANGED <<components, req, locals>>
  /\ \E tracked \in BOOLEAN :
       IF tracked
       THEN /\ calls' = AfterTrack(1)
            /\ Return(Respond(200, EarlyExitBody))
       ELSE \* trackFeatureUsage rethrows (autumn.ts:61-64), caught at route.ts:632
            /\ calls' = Append(calls, TrackUsage(1, FALSE))
            /\ Return(InternalError)

\* variant of NextAfterDecision: the self-primary test is missing
NextAfterDecisionMut(d) ==
  IF d.recommendedAction = "KEEP" THEN "DecisionExit" ELSE "Fetch"

\* variant of NextAfterDecision: the primary record is not fetched
NextAfterDecisionSkipFetch(d) ==
  IF d.recommendedAction = "KEEP" \/ d.primaryRecordId = recordId
  THEN "DecisionExit" ELSE "Step3"

\* route.ts:407: KEEP, or the current record named as primary, ends the run
NextAfterDecision(d) ==
  IF d.recommendedAction = "KEEP" \/ d.primaryRecordId = recordId
  THEN "DecisionExit" ELSE "Fetch"

\* route.ts:358-407: stage 2, the decision inference
Step2MergeDecision ==
  /\ pc = "Step2"
  /\ UNCHANGED <<components, req, duplicateSearch, duplicates, otherDuplicates,
                 fieldMerge,
                 recordUpdated, recordMerged>>
  /\ \E outcome \in InferenceOutcomes :
       /\ calls' = AfterInference(2, otherDuplicates, outcome)
       /\ CASE outcome = "ok" ->
                 \E d \in Decisions :
                   /\ mergeDecision' = d
                   /\ totalAiUsage' = totalAiUsage \cup {2}
                   /\ pc' = NextAfterDecision(d)
                   /\ UNCHANGED resp
            [] outcome = "empty" ->
                 /\ Return(Respond(500, [error |-> "Failed to generate merge decision"]))
                 /\ UNCHANGED <<mergeDecision, totalAiUsage>>
            [] OTHER ->
                 /\ Return(InternalError)
                 /\ UNCHANGED <<mergeDecision, totalAiUsage>>

\* variant of TotalCreditsDecision: the decision exit charges three credits
TotalCreditsDecisionMut == 2 + 1

\* route.ts:408: `const totalCredits = 2 // Step 1 + Step 2`
TotalCreditsDecision == 2

\* route.ts:419-445: the body of the response of the decision exit
DecisionExitBody ==
  Spread(Spread([recordId |-> recordId,
                 duplicatesFound |-> TRUE,
                 duplicateCount |-> Len(otherDuplicates),
                 duplicates |-> otherDuplicates],
                mergeDecision),
         [creditCost |-> TotalCreditsDecision,
          recordMerged |-> FALSE,
          aiUsage |-> totalAiUsage])

\* route.ts:407-446: KEEP, or the current record is the primary
DecisionExit ==
  /\ pc = "DecisionExit"
  /\ UNCHANGED <<components, req, locals>>
  /\ \E tracked \in BOOLEAN :
       IF tracked
       THEN /\ calls' = AfterTrack(TotalCreditsDecision)
            /\ Return(Respond(200, DecisionExitBody))
       ELSE /\ calls' = Append(calls, TrackUsage(TotalCreditsDecision, FALSE))
            /\ Return(InternalError)

\* variant of GetCompanyThrows: the response status is not looked at
GetCompanyThrowsMut(ok) == FALSE

\* hubspot.ts:111-116: getCompany throws when the response is not ok
GetCompanyThrows(ok) == ~ok

\* route.ts:451-453: createCRMClient and getCompany(primaryRecordId)
FetchPrimary ==
  /\ pc = "Fetch"
  /\ UNCHANGED <<components, req, locals>>
  /\ IF req.crm # "hubspot"
     THEN \* createCRMClient throws (types.ts:88-98), caught at route.ts:632
          /\ Return(InternalError)
          /\ UNCHANGED calls
     ELSE \/ NeverAnswered(FetchCall(mergeDecision.primaryRecordId, FALSE))
          \/ \E ok \in BOOLEAN :
            /\ calls' = Append(calls, FetchCall(mergeDecision.primaryRecordId, ok))
            /\ IF ~GetCompanyThrows(ok)
               THEN pc' = "Step3" /\ UNCHANGED resp
               ELSE \* getCompany throws (hubspot.ts:111-116), caught at route.ts:632
                    Return(InternalError)

\* variant of NextAfterFieldMerge: the update runs for an empty plan too
NextAfterFieldMergeMut(f) == IF Truthy(mergeRecord) THEN "Update" ELSE "Final"

\* route.ts:519-523: the apply steps run only if mergeRecord is truthy, and
\* the update only if the plan has a property
NextAfterFieldMerge(f) ==
  IF Truthy(mergeRecord)
  THEN IF Cardinality(f.primaryRecordPropertiesToUpdate) > 0 THEN "Update" ELSE "Merge"
  ELSE "Final"

\* route.ts:455-523: stage 3, the field-merge inference
Step3FieldMerge ==
  /\ pc = "Step3"
  /\ UNCHANGED <<components, req, duplicateSearch, duplicates, otherDuplicates, mergeDecision,
                 recordUpdated, recordMerged>>
  /\ \E outcome \in InferenceOutcomes :
       /\ calls' = AfterInference(3, <<>>, outcome)
       /\ CASE outcome = "ok" ->
                 \E f \in FieldMerges :
                   /\ fieldMerge' = f
                   /\ totalAiUsage' = totalAiUsage \cup {3}
                   /\ pc' = NextAfterFieldMerge(f)
                   /\ UNCHANGED resp
            [] outcome = "empty" ->
                 /\ Return(Respond(500,
                      [error |-> "Failed to generate field merge analysis"]))
                 /\ UNCHANGED <<fieldMerge, totalAiUsage>>
            [] OTHER ->
                 /\ Return(InternalError)
                 /\ UNCHANGED <<fieldMerge, totalAiUsage>>

\* variant of UpdateThrows: the response status is not looked at
UpdateThrowsMut(ok) == FALSE

\* hubspot.ts:34-39: updateCompany throws when the response is not ok
UpdateThrows(ok) == ~ok

\* route.ts:523-539: step 5, update the primary record
UpdatePrimary ==
  /\ pc = "Update"
  /\ UNCHANGED <<components, req, duplicateSearch, duplicates, otherDuplicates,
                 mergeDecision, fieldMerge,
                 totalAiUsage, recordMerged>>
  /\ \/ /\ NeverAnswered(UpdateCall(mergeDecision.primaryRecordId,
                      fieldMerge.primaryRecordPropertiesToUpdate, FALSE))
        /\ UNCHANGED recordUpdated
     \/ \E ok \in BOOLEAN :
       /\ calls' = Append(calls, UpdateCall(mergeDecision.primaryRecordId,
                                            fieldMerge.primaryRecordPropertiesToUpdate, ok))
       /\ IF ~UpdateThrows(ok)
          THEN /\ recordUpdated' = TRUE
               /\ pc' = "Merge"
               /\ UNCHANGED resp
          ELSE \E e \in UpstreamErrors :
                 /\ Return(Respond(500, StoreFailureBody("update", e)))
                 /\ UNCHANGED recordUpdated

\* variant of MergeSucceeded: mergeResponse.ok is not looked at
MergeSucceededMut(outcome) == outcome # "throws"

\* route.ts:558-566: the merge fetch resolved and mergeResponse.ok holds
MergeSucceeded(outcome) == outcome = "ok"

\* route.ts:541-575: step 6, merge the current record into the primary
MergeRecords ==
  /\ pc = "Merge"
  /\ UNCHANGED <<components, req, duplicateSearch, duplicates, otherDuplicates,
                 mergeDecision, fieldMerge,
                 totalAiUsage, recordUpdated>>
  /\ \/ /\ NeverAnswered(MergeCall(mergeDecision.primaryRecordId, recordId, FALSE))
        /\ UNCHANGED recordMerged
     \/ \E outcome \in FetchOutcomes :
       /\ calls' = Append(calls, MergeCall(mergeDecision.primaryRecordId, recordId,
                                           outcome = "ok"))
       /\ CASE MergeSucceeded(outcome) ->
                 /\ recordMerged' = TRUE
                 /\ pc' = "Final"
                 /\ UNCHANGED resp
            [] outcome = "notok" ->
                 \E e \in UpstreamErrors :
                   /\ Return(Respond(500, StoreFailureBody("merge", e)))
                   /\ UNCHANGED recordMerged
            [] OTHER ->
                 \E e \in UpstreamErrors :
                   /\ Return(Respond(500, StoreFailureBody("mergeThrows", e)))
                   /\ UNCHANGED recordMerged

\* route.ts:514: `const totalCredits = 3`
TotalCredits == 3

\* route.ts:593-630: the body of the full response
FinalBody ==
  Spread(Spread([recordId |-> recordId,
                 duplicatesFound |-> TRUE,
                 duplicateCount |-> Len(otherDuplicates),
                 duplicates |-> otherDuplicates],
                mergeDecision),
         [fieldMergeAnalysis |-> fieldMerge,
          primaryRecordPropertiesToUpdate |-> fieldMerge.primaryRecordPropertiesToUpdate,
          mergeRecord |-> mergeRecord,
          recordUpdated |-> recordUpdated,
          recordMerged |-> recordMerged,
          creditCost |-> TotalCredits,
          aiUsage |-> totalAiUsage])

\* route.ts:578-630: usage tracking and the full response
FinalResponse ==
  /\ pc = "Final"
  /\ UNCHANGED <<components, req, locals>>
  /\ \E tracked \in BOOLEAN :
       IF tracked
       THEN /\ calls' = AfterTrack(TotalCredits)
            /\ Return(Respond(200, FinalBody))
       ELSE /\ calls' = Append(calls, TrackUsage(TotalCredits, FALSE))
            /\ Return(InternalError)

Next ==
  \/ ValidateApiKey
  \/ Gate
  \/ ParseBody
  \/ Step1DuplicateSearch
  \/ Search
  \/ EarlyExit
  \/ Step2MergeDecision
  \/ DecisionExit
  \/ FetchPrimary
  \/ Step3FieldMerge
  \/ UpdatePrimary
  \/ MergeRecords
  \/ FinalResponse

Spec == Init /\ [][Next]_vars

\* the handler runs whenever it can: every await that is answered resumes
FairSpec == Spec /\ WF_vars(Next)

(***************************************************************************)
(* The filter sanitizer on its own: a value is sanitized, then the result  *)
(* is sanitized again                                                      *)
(***************************************************************************)
\* no merge request is being handled
HandlerIdle ==
  /\ pc = "Idle"
  /\ req = [apiKey |-> Undef, crm |-> "none", body |-> Null]
  /\ calls = <<>>
  /\ resp = NoResponse
  /\ duplicateSearch = <<>>
  /\ duplicates = <<>>
  /\ otherDuplicates = <<>>
  /\ mergeDecision = NoDecision
  /\ fieldMerge = NoFieldMerge
  /\ totalAiUsage = {}
  /\ recordUpdated = FALSE
  /\ recordMerged = FALSE

\* the variables of the merge handler
handler == <<pc, req, calls, resp, locals>>

SanInit ==
  /\ HandlerIdle
  /\ rule = Off
  /\ sch = Off
  /\ lim = Off
  /\ idem = Off
  /\ ledger = Off
  /\ clean = Off
  /\ \E v \in SanInputs : san = [NotSanitizing EXCEPT !.in = v]

SanitizeOnce ==
  /\ san.step = 0
  /\ san' = [san EXCEPT !.step = 1, !.out = Sanitize(san.in)]
  /\ UNCHANGED <<handler, rule, sch, lim, idem, ledger, clean>>

SanitizeAgain ==
  /\ san.step = 1
  /\ san' = [san EXCEPT !.step = 2, !.out2 = Sanitize(san.out)]
  /\ UNCHANGED <<handler, rule, sch, lim, idem, ledger, clean>>

SanNext ==
  \/ SanitizeOnce
  \/ SanitizeAgain

SanitizeSpec == SanInit /\ [][SanNext]_vars

(***************************************************************************)
(* sanitizeRule on its own                                                 *)
(***************************************************************************)
RuleInit ==
  /\ HandlerIdle
  /\ san = NotSanitizing
  /\ sch = Off
  /\ lim = Off
  /\ idem = Off
  /\ ledger = Off
  /\ clean = Off
  /\ \E v \in RuleInputs : rule = [step |-> 0, in |-> v, out |-> Undef]

SanitizeRuleCall ==
  /\ rule.step = 0
  /\ rule' = [rule EXCEPT !.step = 1, !.out = sanitizeRule(rule.in)]
  /\ UNCHANGED <<handler, san, sch, lim, idem, ledger, clean>>

RuleSpec == RuleInit /\ [][SanitizeRuleCall]_vars

(***************************************************************************)
(* The stage schemas (route.ts:8-147, 244-248, 358-362, 455-469). A        *)
(* description is a sequence of pieces of text; caller text is a sequence  *)
(* of characters                                                           *)
(***************************************************************************)
Property(type, description, enum) ==
  [type |-> type, description |-> description, enum |-> enum]

\* route.ts:8-81
DUPLICATE_SEARCH_SCHEMA ==
  [type |-> "object",
   description |-> <<"duplicate search filters">>,
   properties |-> [filterGroups |-> Property("array", <<"filter groups">>, {})],
   required |-> {"filterGroups"},
   additionalProperties |-> FALSE]

\* route.ts:84-121
MERGE_DECISION_SCHEMA ==
  [type |-> "object",
   description |-> <<"merge analysis">>,
   properties |->
     [recommendedAction |-> Property("string", <<"action">>, {"MERGE", "KEEP"}),
      reasoning |-> Property("string", <<"reasoning">>, {}),
      confidence |-> Property("string", <<"confidence">>, {"LOW", "MEDIUM", "HIGH"}),
      primaryRecordId |-> Property("string", <<"primary record id">>, {})],
   required |-> {"recommendedAction", "reasoning", "confidence", "primaryRecordId"},
   additionalProperties |-> FALSE]

\* route.ts:124-147
MERGE_FIELD_SCHEMA ==
  [type |-> "object",
   description |-> <<"field merge analysis">>,
   properties |->
     [primaryRecordPropertiesToUpdate |->
        Property("object", <<"properties to merge">>, {}),
      reasoning |-> Property("string", <<"merge strategy">>, {}),
      confidence |-> Property("string", <<"confidence">>, {"LOW", "MEDIUM", "HIGH"})],
   required |-> {"primaryRecordPropertiesToUpdate", "reasoning", "confidence"},
   additionalProperties |-> FALSE]

\* the module-level templates, by the stage that uses them
BaseTemplates ==
  <<DUPLICATE_SEARCH_SCHEMA, MERGE_DECISION_SCHEMA, MERGE_FIELD_SCHEMA>>

Requests == 1..NumRequests

\* mergePropertyRules as the body may carry it: absent, not an object, or an
\* object given by its entries in Object.entries order, with distinct
\* property names
PropertyRuleValues ==
  {Undef, Str(<<"r">>)} \cup
  { Obj(e) :
      e \in { f \in SeqsUpTo([property : Props,
                              rule : {Num(1), Str(<<" ">>), Str(<<"r", "{">>)}],
                             MaxPropertyRules) :
                \A i, j \in DOMAIN f : i # j => f[i].property # f[j].property } }

\* the rule fields of the body that a stage reads: its rule text
\* (duplicateRules, primaryRules, mergeRules) and, for stage 3,
\* mergePropertyRules
StageRules(stage) ==
  [text : {Undef, Num(1), Str(<<>>), Str(<<" ">>), Str(<<"r">>),
           Str(<<"r", "{">>)},
   props : IF stage = 3 THEN PropertyRuleValues ELSE {Undef}]

\* the fixed text put between a description and the rule text
RuleLabel(stage) ==
  CASE stage = 1 -> " User duplicate rules: "
    [] stage = 2 -> " User primary record selection rules: "
    [] OTHER -> " User merge rules: "

\* variant of HasText: whitespace-only text counts as a rule
HasTextMut(r) == Truthy(r) /\ TypeOf(r) = "string"

\* `rules && typeof rules === "string" && rules.trim()`
HasText(r) == Truthy(r) /\ TypeOf(r) = "string" /\ Trim(r.v) # <<>>

\* variant of AppendTo: the description is replaced by the rule text
AppendToMut(description, label, text) == <<label>> \o text

\* `${description}${label}${text}`
AppendTo(description, label, text) == description \o <<label>> \o text

\* route.ts:460-463: the kept entries as `${property}: ${rule}`, joined by ", "
RECURSIVE JoinPropertyRules(_)
JoinPropertyRules(entries) ==
  IF entries = <<>> THEN <<>>
  ELSE LET rest == JoinPropertyRules(Tail(entries))
           e == Head(entries)
       IN IF TypeOf(e.rule) = "string" /\ Trim(e.rule.v) # <<>>
          THEN <<e.property, ": ">> \o e.rule.v
                 \o (IF rest = <<>> THEN <<>> ELSE <<", ">> \o rest)
          ELSE rest

\* route.ts:459-469: the text appended for mergePropertyRules, empty if none
PropertyRulesText(props) ==
  IF Truthy(props) /\ TypeOf(props) = "object"
  THEN JoinPropertyRules(props.v)
  ELSE <<>>

\* the step schema of a stage after the handler has put the rules into it:
\* the rule text of the stage is appended to the top-level description
\* (route.ts:246-248, 360-362, 456-458), then the property rules to the
\* description of primaryRecordPropertiesToUpdate (route.ts:459-469)
BuildSchema(stage, schema, rules) ==
  LET withText ==
        IF HasText(rules.text)
        THEN [schema EXCEPT
                !.description = AppendTo(@, RuleLabel(stage), rules.text.v)]
        ELSE schema
  IN IF stage = 3 /\ PropertyRulesText(rules.props) # <<>>
     THEN [withText EXCEPT
             !.properties.primaryRecordPropertiesToUpdate.description =
               AppendTo(@, " User property rules: ",
                        PropertyRulesText(rules.props))]
     ELSE withText

\* variant of StepSchemaOwner: no copy is made, the step schema is the
\* module-level template itself
StepSchemaOwnerMut(r) == 0

\* JSON.parse(JSON.stringify(TEMPLATE)): the step schema is a new object
\* that belongs to the request; owner 0 stands for the module
StepSchemaOwner(r) == r

SchemaInit ==
  /\ HandlerIdle
  /\ san = NotSanitizing
  /\ rule = Off
  /\ lim = Off
  /\ idem = Off
  /\ ledger = Off
  /\ clean = Off
  /\ sch = [templates |-> BaseTemplates,
            reqs |-> [r \in Requests |->
                        [stage |-> 0,
                         rules |-> [text |-> Undef, props |-> Undef],
                         schema |-> [type |-> "none"]]]]

\* request r builds the schema of its next stage and sends it with the
\* inference request of the stage (route.ts:244-268, 358-387, 455-494)
BuildStepSchema(r) ==
  /\ sch.reqs[r].stage < 3
  /\ \E rules \in StageRules(sch.reqs[r].stage + 1) :
       LET stage == sch.reqs[r].stage + 1
           built == BuildSchema(stage, sch.templates[stage], rules)
       IN sch' = [templates |->
                    IF StepSchemaOwner(r) = 0
                    THEN [sch.templates EXCEPT ![stage] = built]
                    ELSE sch.templates,
                  reqs |-> [sch.reqs EXCEPT
                              ![r] = [stage |-> stage, rules |-> rules,
                                      schema |-> built]]]
  /\ UNCHANGED <<handler, san, rule, lim, idem, ledger, clean>>

SchemaSpec == SchemaInit /\ [][\E r \in Requests : BuildStepSchema(r)]_vars

(***************************************************************************)
(* The rate limiter: limit() with the KV store available, one action per   *)
(* await.  Version "getset" is lib/ratelimit.ts, version "incr" the        *)
(* revision of the same function that uses kv.incr.                        *)
(***************************************************************************)
MsPerSecond == 1000

Callers == 1..NumCallers

\* an optional value is <<>> or <<v>>
Absent == <<>>

\* a key of the KV store: its value and the time (ms) it expires at
NoKey == [val |-> Absent, exp |-> Absent]

Live(k, t) == k.val # Absent /\ (k.exp = Absent \/ t < k.exp[1])

KvGet(k, t) == IF Live(k, t) THEN k.val ELSE Absent

KvSet(v, t, ex) == [val |-> <<v>>, exp |-> <<t + ex * MsPerSecond>>]

WindowSeconds(windowMs) == (windowMs + MsPerSecond - 1) \div MsPerSecond

LimitResult(success, reset, viaKV) ==
  [success |-> success, reset |-> reset, kv |-> viaKV]

LimiterInit ==
  /\ HandlerIdle
  /\ san = NotSanitizing
  /\ rule = Off
  /\ sch = Off
  /\ idem = Off
  /\ ledger = Off
  /\ clean = Off
  /\ \E version \in {"getset", "incr"}, maxRequests \in 1..MaxLimit, w \in 1..MaxWindow :
       lim = [on |-> TRUE, version |-> version, maxRequests |-> maxRequests,
              windowMs |-> w * MsPerSecond, now |-> 0,
              key |-> NoKey, resetKey |-> NoKey, limits |-> Absent,
              callers |-> [c \in Callers |->
                            [pc |-> "idle", now |-> 0, resetAt |-> 0,
                             current |-> Absent, result |-> Absent]]]

LimiterStep(c, caller, key, resetKey) ==
  /\ lim' = [lim EXCEPT !.callers[c] = caller, !.key = key,
                        !.resetKey = resetKey]
  /\ UNCHANGED <<handler, san, rule, sch, idem, ledger, clean>>

Returned(me, result) == [me EXCEPT !.pc = "done", !.result = <<result>>]

\* const now = Date.now(), up to the first await
Limit(c) ==
  /\ lim.on
  /\ lim.callers[c].pc = "idle"
  /\ LimiterStep(c, [lim.callers[c] EXCEPT
                       !.pc = IF lim.version = "getset" THEN "get"
                                                        ELSE "getReset",
                       !.now = lim.now],
                 lim.key, lim.resetKey)

\* lib/ratelimit.ts: const current = await kv.get(key), and the branch
GetCurrent(c) ==
  /\ lim.on
  /\ lim.callers[c].pc = "get"
  /\ LET me == lim.callers[c]
         current == KvGet(lim.key, lim.now)
     IN LimiterStep(c,
          IF current = Absent \/ current[1].resetAt < me.now
          THEN [me EXCEPT !.pc = "setNew", !.resetAt = me.now + lim.windowMs]
          ELSE IF current[1].count >= lim.maxRequests
          THEN Returned(me, LimitResult(FALSE, current[1].resetAt, TRUE))
          ELSE [me EXCEPT !.pc = "setInc",
                          !.current =
                             <<[current[1] EXCEPT !.count = @ + 1]>>],
          lim.key, lim.resetKey)

\* await kv.set(key, { count: 1, resetAt }, { ex: windowSeconds })
SetNewWindow(c) ==
  /\ lim.on
  /\ lim.callers[c].pc = "setNew"
  /\ LET me == lim.callers[c]
     IN LimiterStep(c, Returned(me, LimitResult(TRUE, me.resetAt, TRUE)),
                    KvSet([count |-> 1, resetAt |-> me.resetAt], lim.now,
                          WindowSeconds(lim.windowMs)),
                    lim.resetKey)

\* current.count++; await kv.set(key, current, { ex: windowSeconds })
SetIncremented(c) ==
  /\ lim.on
  /\ lim.callers[c].pc = "setInc"
  /\ LET me == lim.callers[c]
     IN LimiterStep(c,
          Returned(me, LimitResult(TRUE, me.current[1].resetAt, TRUE)),
          KvSet(me.current[1], lim.now, WindowSeconds(lim.windowMs)),
          lim.resetKey)

\* revision: let resetAt = await kv.get(resetKey), and the branch
GetResetAt(c) ==
  /\ lim.on
  /\ lim.callers[c].pc = "getReset"
  /\ LET me == lim.callers[c]
         resetAt == KvGet(lim.resetKey, lim.now)
     IN LimiterStep(c,
          IF resetAt = Absent \/ resetAt[1] = 0 \/ resetAt[1] < me.now
          THEN [me EXCEPT !.pc = "setReset",
                          !.resetAt = me.now + lim.windowMs]
          ELSE [me EXCEPT !.pc = "incr", !.resetAt = resetAt[1]],
          lim.key, lim.resetKey)

\* await kv.set(resetKey, resetAt, { ex: windowSeconds })
SetResetAt(c) ==
  /\ lim.on
  /\ lim.callers[c].pc = "setReset"
  /\ LET me == lim.callers[c]
     IN LimiterStep(c, [me EXCEPT !.pc = "setKey"], lim.key,
                    KvSet(me.resetAt, lim.now, WindowSeconds(lim.windowMs)))

\* await kv.set(key, 0, { ex: windowSeconds })
SetCount(c) ==
  /\ lim.on
  /\ lim.callers[c].pc = "setKey"
  /\ LimiterStep(c, [lim.callers[c] EXCEPT !.pc = "incr"],
                 KvSet(0, lim.now, WindowSeconds(lim.windowMs)),
                 lim.resetKey)

\* const currentCount = await kv.incr(key); the result is decided here and
\* returned at once unless the count is 1
Incr(c) ==
  /\ lim.on
  /\ lim.callers[c].pc = "incr"
  /\ LET me == lim.callers[c]
         key == IF Live(lim.key, lim.now)
                THEN [lim.key EXCEPT !.val = <<lim.key.val[1] + 1>>]
                ELSE [val |-> <<1>>, exp |-> Absent]
         currentCount == key.val[1]
         result == LimitResult(currentCount <= lim.maxRequests, me.resetAt,
                               TRUE)
     IN LimiterStep(c,
          IF currentCount = 1
          THEN [me EXCEPT !.pc = "expire", !.current = <<result>>]
          ELSE Returned(me, result),
          key, lim.resetKey)

\* await kv.expire(key, windowSeconds)
Expire(c) ==
  /\ lim.on
  /\ lim.callers[c].pc = "expire"
  /\ LET me == lim.callers[c]
     IN LimiterStep(c, Returned(me, me.current[1]),
                    IF Live(lim.key, lim.now)
                    THEN [lim.key EXCEPT
                            !.exp = <<lim.now + WindowSeconds(lim.windowMs)
                                                  * MsPerSecond>>]
                    ELSE lim.key,
                    lim.resetKey)

\* catch (error): the KV call rejects and InMemoryRateLimiter.limit answers;
\* it has no await inside, so it runs in one step
Fallback(c) ==
  /\ lim.on
  /\ lim.callers[c].pc \notin {"idle", "done"}
  /\ LET entry == lim.limits
         r == IF entry = Absent \/ entry[1].resetAt < lim.now
              THEN [entry |-> <<[count |-> 1,
                                 resetAt |-> lim.now + lim.windowMs]>>,
                    result |-> LimitResult(TRUE, lim.now + lim.windowMs, FALSE)]
              ELSE IF entry[1].count >= lim.maxRequests
              THEN [entry |-> entry,
                    result |-> LimitResult(FALSE, entry[1].resetAt, FALSE)]
              ELSE [entry |-> <<[entry[1] EXCEPT !.count = @ + 1]>>,
                    result |-> LimitResult(TRUE, entry[1].resetAt, FALSE)]
     IN lim' = [lim EXCEPT !.limits = r.entry,
                           !.callers[c] = Returned(@, r.result)]
  /\ UNCHANGED <<handler, san, rule, sch, idem, ledger, clean>>

\* a second passes
Tick ==
  /\ lim.on
  /\ lim.now < MaxTicks * MsPerSecond
  /\ lim' = [lim EXCEPT !.now = @ + MsPerSecond]
  /\ UNCHANGED <<handler, san, rule, sch, idem, ledger, clean>>

LimiterNext ==
  \/ \E c \in Callers :
       \/ Limit(c)
       \/ GetCurrent(c)
       \/ SetNewWindow(c)
       \/ SetIncremented(c)
       \/ GetResetAt(c)
       \/ SetResetAt(c)
       \/ SetCount(c)
       \/ Incr(c)
       \/ Expire(c)
       \/ Fallback(c)
  \/ Tick

LimiterSpec == LimiterInit /\ [][LimiterNext]_vars

(***************************************************************************)
(* The idempotency protocol: validateIdempotencyKey, checkIdempotency,     *)
(* the request body, storeIdempotentResponse; one action per await, while  *)
(* the clock (Date.now(), ms) advances.  User ids are uuids: they contain  *)
(* no colon.                                                               *)
(***************************************************************************)
MAX_IDEMPOTENCY_KEY_LENGTH == 255

IDEMPOTENCY_TTL_SECONDS == 24 * 60 * 60

Clients == 1..NumClients

\* the Idempotency-Key header: absent, well-formed, or with a character
\* outside the safe ones, which here are a and b
IdempotencyKeys == {<<>>, <<"a">>, <<"a", " ">>}

validateIdempotencyKey(key) ==
  \/ key = <<>>
  \/ /\ Len(key) >= 1
     /\ Len(key) <= MAX_IDEMPOTENCY_KEY_LENGTH
     /\ \A i \in DOMAIN key : key[i] \in {"a", "b"}

\* variant of IdempotencyKey: the user is not part of the key
IdempotencyKeyMut(userId, key) == <<"idempotency", ":">> \o key

\* `idempotency:${userId}:${idempotencyKey}`
IdempotencyKey(userId, key) ==
  <<"idempotency", ":">> \o userId \o <<":">> \o key

IdemInit ==
  /\ HandlerIdle
  /\ san = NotSanitizing
  /\ rule = Off
  /\ sch = Off
  /\ lim = Off
  /\ ledger = Off
  /\ clean = Off
  /\ LET Users == {<<"u">>, <<"u", "a">>}
     IN \E isKVAvailable \in BOOLEAN,
           userId \in [Clients -> Users], key \in [Clients -> IdempotencyKeys] :
          idem = [on |-> TRUE, isKVAvailable |-> isKVAvailable,
                  userId |-> userId, key |-> key, now |-> 0, advances |-> 0,
                  records |-> [k \in { IdempotencyKey(u, j) :
                                         u \in Users, j \in IdempotencyKeys }
                                 |-> Absent],
                  executions |-> 0,
                  clients |-> [c \in Clients |->
                                 [pc |-> "validate", cached |-> FALSE,
                                  processed |-> FALSE, response |-> Absent,
                                  checkedAt |-> Absent]]]

\* the key format check and the 400 answer
ValidateKey(c) ==
  /\ idem.on
  /\ idem.clients[c].pc = "validate"
  /\ idem' = [idem EXCEPT
                !.clients[c] =
                   IF validateIdempotencyKey(idem.key[c])
                   THEN [@ EXCEPT !.pc = "check"]
                   ELSE [@ EXCEPT !.pc = "done",
                                  !.response = <<[status |-> 400, body |-> 0]>>]]
  /\ UNCHANGED <<handler, san, rule, sch, lim, ledger, clean>>

\* checkIdempotency: the stored record, or cached: false without a key, without
\* a record, or (kvThrows) when the KV call rejects.  The KV store drops a
\* record IDEMPOTENCY_TTL_SECONDS after it was set; the in-memory branch
\* compares the age of the record itself and deletes an expired one
CheckIdempotency(c) ==
  /\ idem.on
  /\ idem.clients[c].pc = "check"
  /\ \E kvThrows \in {FALSE} \cup {idem.isKVAvailable} :
       LET me == [idem.clients[c] EXCEPT !.checkedAt = <<idem.now>>]
           key == IdempotencyKey(idem.userId[c], idem.key[c])
           record == idem.records[key]
           fresh == /\ record # Absent
                    /\ idem.now - record[1].createdAt
                         < IDEMPOTENCY_TTL_SECONDS * 1000
       IN idem' = [idem EXCEPT
                     !.records[key] =
                        IF /\ idem.key[c] # <<>>
                           /\ ~idem.isKVAvailable
                           /\ record # Absent
                           /\ ~fresh
                        THEN Absent ELSE @,
                     !.clients[c] =
                        IF idem.key[c] # <<>> /\ ~kvThrows /\ fresh
                        THEN [me EXCEPT
                                !.pc = "done", !.cached = TRUE,
                                !.response =
                                   <<[status |-> record[1].responseStatus,
                                      body |-> record[1].responseBody]>>]
                        ELSE [me EXCEPT !.pc = "process"]]
  /\ UNCHANGED <<handler, san, rule, sch, lim, ledger, clean>>

\* the request body runs; its answer names this execution
Process(c) ==
  /\ idem.on
  /\ idem.clients[c].pc = "process"
  /\ idem' = [idem EXCEPT
                !.executions = @ + 1,
                !.clients[c] =
                   [@ EXCEPT !.pc = "store", !.processed = TRUE,
                             !.response =
                                <<[status |-> 200,
                                        body |-> idem.executions + 1]>>]]
  /\ UNCHANGED <<handler, san, rule, sch, lim, ledger, clean>>

\* storeIdempotentResponse: nothing without a key; a rejected KV call is
\* logged and swallowed
StoreIdempotentResponse(c) ==
  /\ idem.on
  /\ idem.clients[c].pc = "store"
  /\ \E kvThrows \in {FALSE} \cup {idem.isKVAvailable} :
       idem' = [idem EXCEPT
                  !.records[IdempotencyKey(idem.userId[c], idem.key[c])] =
                     IF idem.key[c] # <<>> /\ ~kvThrows
                     THEN <<[responseStatus |-> idem.clients[c].response[1].status,
                             responseBody |-> idem.clients[c].response[1].body,
                             createdAt |-> idem.now]>>
                     ELSE @,
                  !.clients[c] = [@ EXCEPT !.pc = "done"]]
  /\ UNCHANGED <<handler, san, rule, sch, lim, ledger, clean>>

\* time passes between two steps: a millisecond, or a millisecond less than
\* the life of a record
IdemTick ==
  /\ idem.on
  /\ idem.advances < MaxAdvances
  /\ \E d \in {1, IDEMPOTENCY_TTL_SECONDS * 1000 - 1} :
       idem' = [idem EXCEPT !.now = @ + d, !.advances = @ + 1]
  /\ UNCHANGED <<handler, san, rule, sch, lim, ledger, clean>>

IdemNext ==
  \/ \E c \in Clients :
       \/ ValidateKey(c)
       \/ CheckIdempotency(c)
       \/ Process(c)
       \/ StoreIdempotentResponse(c)
  \/ IdemTick

IdemSpec == IdemInit /\ [][IdemNext]_vars

(***************************************************************************)
(* Metering of merge requests of one user against the credit ledger: the   *)
(* gate (route.ts:179-187), the pipeline, the charge (route.ts:322, 410,   *)
(* 580).  The ledger is asked about the feature only, without an amount    *)
(* (autumn.ts:22-25), and admits while at least one credit is left.        *)
(***************************************************************************)
LedgerInit ==
  /\ HandlerIdle
  /\ san = NotSanitizing
  /\ rule = Off
  /\ sch = Off
  /\ lim = Off
  /\ idem = Off
  /\ clean = Off
  /\ \E balance \in 0..MaxBalance :
       ledger = [on |-> TRUE, balance |-> balance,
                 reqs |-> [r \in Requests |->
                             [pc |-> "gate", remaining |-> 0, cost |-> 0]]]

\* checkFeatureAccess and `if (!access.allowed)`: only allowed is looked at
GateAdmit(r) ==
  /\ ledger.on
  /\ ledger.reqs[r].pc = "gate"
  /\ ledger' = [ledger EXCEPT
                  !.reqs[r] = [pc |-> IF ledger.balance >= 1 THEN "pipeline"
                                                             ELSE "denied",
                               remaining |-> ledger.balance, cost |-> 0]]
  /\ UNCHANGED <<handler, san, rule, sch, lim, idem, clean>>

\* the pipeline ends at one of its three exits with 1, 2 or 3 stages run, or
\* it fails and nothing is charged
RunPipeline(r) ==
  /\ ledger.on
  /\ ledger.reqs[r].pc = "pipeline"
  /\ \E totalCredits \in 0..3 :
       ledger' = [ledger EXCEPT
                    !.reqs[r].pc = IF totalCredits = 0 THEN "failed" ELSE "track",
                    !.reqs[r].cost = totalCredits]
  /\ UNCHANGED <<handler, san, rule, sch, lim, idem, clean>>

\* trackFeatureUsage(userId, "api_credits", totalCredits)
Charge(r) ==
  /\ ledger.on
  /\ ledger.reqs[r].pc = "track"
  /\ ledger' = [ledger EXCEPT !.balance = @ - ledger.reqs[r].cost,
                              !.reqs[r].pc = "charged"]
  /\ UNCHANGED <<handler, san, rule, sch, lim, idem, clean>>

LedgerNext == \E r \in Requests : GateAdmit(r) \/ RunPipeline(r) \/ Charge(r)

LedgerSpec == LedgerInit /\ [][LedgerNext]_vars

(***************************************************************************)
(* The clean endpoint: buildDynamicSchema and POST of the clean route, one *)
(* action per stretch of the handler between two exits.  A company is a    *)
(* function from the caller's keys to values that are null or strings.     *)
(***************************************************************************)
\* the keys of BASE_SCHEMA.properties.cleanedCompany.properties; reasoning
\* and confidence have the same keys
BASE_SCHEMA_PROPERTIES ==
  {"name", "legalName", "description", "industry", "website", "domain",
   "city", "state", "country", "postalCode", "phone", "street", "linkedIn",
   "facebook", "instagram", "twitter"}

\* variant of buildDynamicSchema: required lists every provided key
buildDynamicSchemaMut(company) ==
  LET section == [properties |-> DOMAIN company \cap BASE_SCHEMA_PROPERTIES,
                  required |-> DOMAIN company]
  IN [cleanedCompany |-> section, reasoning |-> section,
      confidence |-> section,
      required |-> {"cleanedCompany", "reasoning", "confidence"}]

\* buildDynamicSchema: in each section the properties and the required list
\* are the provided keys that the base schema has
buildDynamicSchema(company) ==
  LET section ==
        [properties |-> { k \in DOMAIN company : k \in BASE_SCHEMA_PROPERTIES },
         required |-> { k \in DOMAIN company : k \in BASE_SCHEMA_PROPERTIES }]
  IN [cleanedCompany |-> section, reasoning |-> section,
      confidence |-> section,
      required |-> {"cleanedCompany", "reasoning", "confidence"}]

\* variant of PropertiesToUpdate: unchanged values are written too
PropertiesToUpdateMut(company, cleaned, existing) ==
  LET lower(k) == CASE k = "legalName" -> "legalname"
                    [] k = "linkedIn" -> "linkedin"
                    [] k = "postalCode" -> "postalcode"
                    [] OTHER -> k
  IN { lower(k) : k \in { j \in DOMAIN cleaned :
                            cleaned[j] # Null /\ lower(j) \in existing } }

\* the names of the properties the write-back puts into the update: key is
\* lower-cased (key.toLowerCase()), the cleaned value is not null, differs
\* from the original after String(...).trim(), and the lower-cased name is a
\* property of the stored record
PropertiesToUpdate(company, cleaned, existing) ==
  LET lower(k) == CASE k = "legalName" -> "legalname"
                    [] k = "linkedIn" -> "linkedin"
                    [] k = "postalCode" -> "postalcode"
                    [] OTHER -> k
      normalized(v) == IF v \in {Undef, Null} THEN Null ELSE Str(Trim(v.v))
      original(k) == IF k \in DOMAIN company THEN company[k] ELSE Undef
  IN { lower(k) :
         k \in { j \in DOMAIN cleaned :
                   /\ normalized(cleaned[j]) # Null
                   /\ normalized(original(j)) # normalized(cleaned[j])
                   /\ lower(j) \in existing } }

CleanInit ==
  /\ HandlerIdle
  /\ san = NotSanitizing
  /\ rule = Off
  /\ sch = Off
  /\ lim = Off
  /\ idem = Off
  /\ ledger = Off
  /\ \E apiKey \in ApiKeyHeaders, keyStored \in BOOLEAN, crm \in CrmHeaders,
        keys \in SUBSET {"name", "legalName", "foo"},
        updateRecord \in {Undef, Bool(TRUE)},
        id \in {Undef, Str(<<" ">>), Str(<<"1">>)} :
       \E company \in [keys -> {Null, Str(<<"a">>), Str(<<" ", "a">>)}] :
         clean = [on |-> TRUE, pc |-> "Validate",
                  req |-> [apiKey |-> apiKey, keyStored |-> keyStored,
                           crm |-> crm, company |-> company,
                           updateRecord |-> updateRecord, recordId |-> id],
                  calls |-> <<>>, status |-> 0,
                  schema |-> buildDynamicSchema(<<>>), cleaned |-> <<>>,
                  existing |-> {}, recordUpdated |-> FALSE]

\* the handler goes on at pc, after the calls
CleanStep(pc_, calls_) ==
  /\ clean' = [clean EXCEPT !.pc = pc_, !.calls = clean.calls \o calls_]
  /\ UNCHANGED <<handler, san, rule, sch, lim, idem, ledger>>

\* the handler answers with status, after the calls
CleanReturn(status, calls_) ==
  /\ clean' = [clean EXCEPT !.pc = "Done", !.status = status,
                            !.calls = clean.calls \o calls_]
  /\ UNCHANGED <<handler, san, rule, sch, lim, idem, ledger>>

\* header and body checks, up to the first await after req.json()
CleanValidate ==
  /\ clean.on
  /\ clean.pc = "Validate"
  /\ LET r == clean.req
     IN IF ~Truthy(r.apiKey) THEN CleanReturn(401, <<>>)
        ELSE IF DOMAIN r.company = {} THEN CleanReturn(400, <<>>)
        ELSE IF ~Truthy(r.updateRecord) THEN CleanStep("Key", <<>>)
        ELSE IF \/ ~Truthy(r.recordId)
                \/ TypeOf(r.recordId) # "string"
                \/ Trim(r.recordId.v) = <<>>
        THEN CleanReturn(400, <<>>)
        ELSE IF r.crm = "none" THEN CleanReturn(400, <<>>)
        ELSE CleanStep("Verify", <<>>)

\* createCRMClient and crmClient.companyExists(recordId), before the key is
\* looked up
CleanVerify ==
  /\ clean.on
  /\ clean.pc = "Verify"
  /\ IF clean.req.crm # "hubspot" THEN CleanReturn(500, <<>>)
     ELSE \E exists \in BOOLEAN :
            IF exists
            THEN CleanStep("Key", <<[op |-> "exists", props |-> {}]>>)
            ELSE CleanReturn(404, <<[op |-> "exists", props |-> {}]>>)

\* the api_keys lookup
CleanLookupKey ==
  /\ clean.on
  /\ clean.pc = "Key"
  /\ IF clean.req.keyStored
     THEN CleanStep("Gate", <<[op |-> "lookupKey", props |-> {}]>>)
     ELSE CleanReturn(401, <<[op |-> "lookupKey", props |-> {}]>>)

\* checkRateLimit and checkFeatureAccess
CleanGate ==
  /\ clean.on
  /\ clean.pc = "Gate"
  /\ \E limited, allowed \in BOOLEAN :
       LET limit == [op |-> "rateLimit", props |-> {}]
           check == [op |-> "check", props |-> {}]
       IN IF limited THEN CleanReturn(429, <<limit>>)
          ELSE IF ~allowed THEN CleanReturn(402, <<limit, check>>)
          ELSE CleanStep("Infer", <<limit, check>>)

\* buildDynamicSchema and callOpenAIWithStructuredOutput: with strict
\* structured output cleanedCompany has the required keys of the schema
CleanInfer ==
  /\ clean.on
  /\ clean.pc = "Infer"
  /\ LET schema == buildDynamicSchema(clean.req.company)
         call == [op |-> "inference", props |-> schema.cleanedCompany.properties]
     IN \/ /\ clean' = [clean EXCEPT !.pc = "Done", !.status = 500,
                                     !.calls = Append(@, call),
                                     !.schema = schema]
           /\ UNCHANGED <<handler, san, rule, sch, lim, idem, ledger>>
        \/ \E cleaned \in [schema.cleanedCompany.required ->
                             {Null, Str(<<"a">>), Str(<<"b">>)}] :
             /\ clean' = [clean EXCEPT
                            !.pc = IF Truthy(clean.req.updateRecord)
                                      /\ Truthy(clean.req.recordId)
                                   THEN "WriteBack" ELSE "Respond",
                            !.calls = Append(@, call),
                            !.schema = schema,
                            !.cleaned = cleaned]
             /\ UNCHANGED <<handler, san, rule, sch, lim, idem, ledger>>

\* the write-back: getCompany, the properties to update, updateCompany
CleanWriteBack ==
  /\ clean.on
  /\ clean.pc = "WriteBack"
  /\ LET fetch == [op |-> "fetch", props |-> {}]
     IN \/ CleanReturn(500, <<fetch>>)
        \/ \E existing \in SUBSET {"name", "legalname", "legalName"} :
             LET properties == PropertiesToUpdate(clean.req.company,
                                                  clean.cleaned, existing)
                 update == [op |-> "update", props |-> properties]
             IN IF properties = {}
                THEN /\ clean' = [clean EXCEPT !.pc = "Respond",
                                               !.calls = Append(@, fetch),
                                               !.existing = existing]
                     /\ UNCHANGED <<handler, san, rule, sch, lim, idem, ledger>>
                ELSE \/ /\ clean' = [clean EXCEPT
                                       !.pc = "Respond",
                                       !.calls = @ \o <<fetch, update>>,
                                       !.existing = existing,
                                       !.recordUpdated = TRUE]
                        /\ UNCHANGED <<handler, san, rule, sch, lim, idem,
                                       ledger>>
                     \/ /\ clean' = [clean EXCEPT
                                       !.pc = "Done", !.status = 500,
                                       !.calls = @ \o <<fetch, update>>,
                                       !.existing = existing]
                        /\ UNCHANGED <<handler, san, rule, sch, lim, idem,
                                       ledger>>

\* trackFeatureUsage, the last_used update and the success response
CleanRespond ==
  /\ clean.on
  /\ clean.pc = "Respond"
  /\ LET track == [op |-> "track", props |-> {}]
     IN \/ CleanReturn(500, <<track>>)
        \/ CleanReturn(200, <<track, [op |-> "touchKey", props |-> {}]>>)

CleanNext ==
  \/ CleanValidate
  \/ CleanVerify
  \/ CleanLookupKey
  \/ CleanGate
  \/ CleanInfer
  \/ CleanWriteBack
  \/ CleanRespond

CleanSpec == CleanInit /\ [][CleanNext]_vars

(***************************************************************************)
(* Vocabulary of the properties                                            *)
(***************************************************************************)
\* positions in the call log of the calls with operation op
CallsOf(op) == { i \in DOMAIN calls : calls[i].op = op }

InferenceCalls == CallsOf("inference")

\* positions of the inference calls of one stage
StageCalls(k) == { i \in InferenceCalls : calls[i].n = k }

\* the elements of a list
Range(s) == { s[i] : i \in DOMAIN s }

\* the request has ended in a success response
Success == resp.status = 200

\* the request has ended in any response
Responded == resp.status # 0

\* the search has returned a result list
SearchReturned == \E i \in CallsOf("search") : calls[i].ok

\* the decision inference has returned a decision
Decided == mergeDecision # NoDecision

\* the decision is MERGE into a record other than the current one
MergeIntoOther ==
  /\ Decided
  /\ mergeDecision.recommendedAction = "MERGE"
  /\ mergeDecision.primaryRecordId # recordId

\* the field-merge inference has returned a plan
Planned == fieldMerge # NoFieldMerge

TypeOK ==
  /\ pc \in {"ApiKey", "Gate", "Body", "Step1", "Search", "EarlyExit", "Step2",
             "DecisionExit", "Fetch", "Step3", "Update", "Merge", "Final", "Done",
             "Awaiting"}
  /\ (pc = "Done") <=> Responded
  /\ totalAiUsage \subseteq 1..3

\* the search returned no record other than the current one
NoOtherDuplicates ==
  /\ SearchReturned
  /\ \A i \in DOMAIN duplicates : duplicates[i] = recordId

\* the decision is KEEP or names the current record as primary
KeepOrSelfPrimary ==
  /\ Decided
  /\ \/ mergeDecision.recommendedAction = "KEEP"
     \/ mergeDecision.primaryRecordId = recordId

\* body.mergeRecord as the caller sent it
MergeRecordSent == req.body.v.mergeRecord

\* position of the first inference call
FirstInference == CHOOSE i \in InferenceCalls : \A j \in InferenceCalls : i <= j

(***************************************************************************)
(* Properties                                                              *)
(***************************************************************************)

\* C1: in every success response creditCost equals the number of inference
\* calls executed in the run: 1 when the search leaves no other duplicate,
\* 2 when the decision is KEEP or names the current record, 3 otherwise,
\* whether or not the apply step ran.
C1_CreditCostCountsInferenceCalls ==
  Success =>
    /\ resp.body.creditCost = Cardinality(InferenceCalls)
    /\ resp.body.creditCost =
         IF NoOtherDuplicates THEN 1
         ELSE IF KeepOrSelfPrimary THEN 2 ELSE 3

\* a success response at cost 2: the decision exit
C1_Witness ==
  /\ Success
  /\ ~NoOtherDuplicates
  /\ KeepOrSelfPrimary
  /\ resp.body.creditCost = 2

\* C2: the gate is consulted for access exactly once before the first
\* inference call; usage is tracked at most once on every path; on a
\* success path it is tracked exactly once, after every inference call, with
\* the creditCost of the response as amount.
C2_GateOnceTrackOnce ==
  /\ InferenceCalls # {} =>
       Cardinality({ i \in CallsOf("check") : i < FirstInference }) = 1
  /\ Cardinality(CallsOf("track")) <= 1
  /\ Success =>
       /\ Cardinality(CallsOf("track")) = 1
       /\ \A t \in CallsOf("track") :
            /\ calls[t].ok
            /\ calls[t].n = resp.body.creditCost
            /\ \A i \in InferenceCalls : i < t

\* a success response after three stages and both apply calls
C2_Witness ==
  /\ Success
  /\ Cardinality(InferenceCalls) = 3
  /\ CallsOf("merge") # {}
  /\ Cardinality(CallsOf("check")) = 2

\* C3: with mergeRecord absent or false no update and no merge call is
\* issued; if the decision is MERGE into another record the success response
\* carries the field-merge plan with recordUpdated=false, recordMerged=false
\* and creditCost=3.
C3_NoApplyWithoutMergeRecord ==
  (SearchReturned /\ MergeRecordSent \in {Undef, Bool(FALSE)}) =>
    /\ CallsOf("update") = {}
    /\ CallsOf("merge") = {}
    /\ (Success /\ MergeIntoOther) =>
         /\ "primaryRecordPropertiesToUpdate" \in DOMAIN resp.body
         /\ resp.body.primaryRecordPropertiesToUpdate =
              fieldMerge.primaryRecordPropertiesToUpdate
         /\ resp.body.recordUpdated = FALSE
         /\ resp.body.recordMerged = FALSE
         /\ resp.body.creditCost = 3

\* mergeRecord absent, MERGE into another record, a plan with a property
C3_Witness ==
  /\ Success
  /\ MergeRecordSent = Undef
  /\ MergeIntoOther
  /\ resp.body.primaryRecordPropertiesToUpdate # {}

\* C4: in every success response whose recommendedAction is MERGE,
\* primaryRecordId differs from the request's recordId and is the id of one
\* of the records the search returned.
C4_MergeNamesOtherCandidate ==
  (Success /\ resp.body.recommendedAction = "MERGE") =>
    /\ resp.body.primaryRecordId # recordId
    /\ resp.body.primaryRecordId \in Range(duplicates)

\* C5: in every success response that carries a decision and whose
\* recommendedAction is KEEP, primaryRecordId equals the request's recordId.
C5_KeepNamesCurrentRecord ==
  (Success /\ Decided /\ resp.body.recommendedAction = "KEEP") =>
    resp.body.primaryRecordId = recordId

\* C6: the list of other duplicates, the list passed to the decision stage
\* and the list returned as duplicates never contain the request's recordId.
C6_SelfExcluded ==
  /\ \A i \in DOMAIN otherDuplicates : otherDuplicates[i] # recordId
  /\ \A c \in StageCalls(2) : recordId \notin Range(calls[c].list)
  /\ Success => recordId \notin Range(resp.body.duplicates)

\* the search returned the current record among others, and the decision ran
C6_Witness ==
  /\ Success
  /\ recordId \in Range(duplicates)
  /\ StageCalls(2) # {}
  /\ resp.body.duplicates # <<>>

C8_EarlyExitStopsPipeline ==
  NoOtherDuplicates =>
    /\ Cardinality(InferenceCalls) = 1
    /\ CallsOf("fetch") = {}
    /\ CallsOf("update") = {}
    /\ CallsOf("merge") = {}

\* the early exit answered a request with mergeRecord true
C8_Witness ==
  /\ Success
  /\ NoOtherDuplicates
  /\ recordId \in Range(duplicates)
  /\ MergeRecordSent = Bool(TRUE)

\* C9: when the decision is KEEP or names the current record as primary the
\* run ends at cost 2: no fetch, no field-merge inference, no update and no
\* merge call, even with mergeRecord true.
C9_DecisionExitStopsPipeline ==
  KeepOrSelfPrimary =>
    /\ CallsOf("fetch") = {}
    /\ StageCalls(3) = {}
    /\ CallsOf("update") = {}
    /\ CallsOf("merge") = {}
    /\ \A t \in CallsOf("track") : calls[t].n = 2
    /\ Success => resp.body.creditCost = 2

\* a MERGE decision that names the current record, with mergeRecord true
C9_Witness ==
  /\ Success
  /\ Decided
  /\ mergeDecision.recommendedAction = "MERGE"
  /\ mergeDecision.primaryRecordId = recordId
  /\ MergeRecordSent = Bool(TRUE)

\* C10: with mergeRecord=true, a MERGE decision into another record and an
\* empty plan, update is not called, merge is called, and the success
\* response reports recordUpdated=false and recordMerged=true.
C10_EmptyPlanSkipsUpdate ==
  (Planned /\ MergeIntoOther /\ MergeRecordSent = Bool(TRUE)
     /\ fieldMerge.primaryRecordPropertiesToUpdate = {}) =>
    /\ CallsOf("update") = {}
    /\ pc \in {"Final", "Done"} => CallsOf("merge") # {}
    /\ Success =>
         /\ resp.body.recordUpdated = FALSE
         /\ resp.body.recordMerged = TRUE

\* the apply step ran with an empty plan and the request succeeded
C10_Witness ==
  /\ Success
  /\ Planned
  /\ MergeRecordSent = Bool(TRUE)
  /\ fieldMerge.primaryRecordPropertiesToUpdate = {}
  /\ CallsOf("merge") # {}

\* the apply calls
UpdateCalls == CallsOf("update")
MergeCalls == CallsOf("merge")

\* C11: every merge call names the decision's primaryRecordId as primary and
\* the request's recordId as merged record, and is issued only after the
\* update call returned successfully, or without any update call when the
\* plan is empty; no merge call precedes or follows a failed update.
C11_MergeAfterUpdate ==
  \A m \in MergeCalls :
    /\ calls[m].id = mergeDecision.primaryRecordId
    /\ calls[m].id2 = recordId
    /\ \A u \in UpdateCalls : u < m /\ calls[u].ok
    /\ UpdateCalls = {} <=> fieldMerge.primaryRecordPropertiesToUpdate = {}

\* a merge call issued after a successful update
C11_Witness ==
  /\ MergeCalls # {}
  /\ \E u \in UpdateCalls : calls[u].ok
  /\ mergeDecision.primaryRecordId # recordId

\* the call at position i of the log was answered, with a failure
Failed(i) == calls[i].answered /\ ~calls[i].ok

\* an apply call (update or merge) has failed
ApplyFailed == \E i \in UpdateCalls \cup MergeCalls : Failed(i)

InferenceFailedAt(k) == \E i \in StageCalls(k) : ~calls[i].ok

\* the amounts tracked in the request, added up (at most one tracking call)
TrackedAmount ==
  IF CallsOf("track") = {} THEN 0
  ELSE LET t == CHOOSE t \in CallsOf("track") : TRUE IN calls[t].n

\* the inference of stage k came back with empty content
EmptyContentAt(k) ==
  /\ InferenceFailedAt(k)
  /\ resp.body.error \in {"Failed to generate duplicate search filters",
                          "Failed to generate merge decision",
                          "Failed to generate field merge analysis"}

C14_InferenceFailureIsFatal ==
  \A i \in InferenceCalls :
    ~calls[i].ok =>
      /\ i = Len(calls)
      /\ resp.status = 500

\* the decision inference threw or returned unparsable content
C14_Witness ==
  /\ InferenceFailedAt(2)
  /\ resp = InternalError
  /\ otherDuplicates # <<>>

\* C15: if the update succeeds and the merge then fails, the failed merge
\* is the last external call of the request, the response is a failure and
\* recordMerged=true is not reported.
C15_NoRollbackAfterFailedMerge ==
  \A m \in MergeCalls :
    (Failed(m) /\ \E u \in UpdateCalls : calls[u].ok) =>
      /\ m = Len(calls)
      /\ resp.status = 500
      /\ "recordMerged" \notin DOMAIN resp.body
      /\ recordMerged = FALSE

\* the merge failed after a successful update
C15_Witness ==
  /\ \E m \in MergeCalls : Failed(m)
  /\ \E u \in UpdateCalls : calls[u].ok
  /\ recordUpdated

\* position of a call in the fixed order of the pipeline, 0 for the calls
\* to the key table and the metering gate
Rank(c) ==
  CASE c.op = "inference" -> 2 * c.n - 1
    [] c.op = "search" -> 2
    [] c.op = "fetch" -> 4
    [] c.op = "update" -> 6
    [] c.op = "merge" -> 7
    [] OTHER -> 0

PipelineCalls == { i \in DOMAIN calls : Rank(calls[i]) > 0 }

\* C16: the pipeline calls of a request occur in the order filter
\* inference, search, decision inference, fetch, field-merge inference,
\* update, merge; a call is issued only after every earlier call has
\* returned, and directly after its predecessor in that order (the update
\* alone may be skipped, for an empty plan).
C16_FixedCallOrder ==
  \A j \in PipelineCalls :
    /\ \A i \in PipelineCalls :
         i < j => Rank(calls[i]) < Rank(calls[j]) /\ calls[i].ok
    /\ \/ Rank(calls[j]) = 1
       \/ \E i \in PipelineCalls : i < j /\ Rank(calls[i]) = Rank(calls[j]) - 1
       \/ /\ Rank(calls[j]) = 7
          /\ fieldMerge.primaryRecordPropertiesToUpdate = {}
          /\ \E i \in PipelineCalls : i < j /\ Rank(calls[i]) = 5

\* a request that issued all seven pipeline calls
C16_Witness ==
  /\ Success
  /\ Cardinality(PipelineCalls) = 7

\* the calls to the record store
StoreCalls ==
  CallsOf("search") \cup CallsOf("fetch") \cup UpdateCalls \cup MergeCalls

\* the key lookup and the gate have let the request through
Admitted == pc \notin {"ApiKey", "Gate"} /\ resp.status \notin {401, 403}

\* the parsed body has no company object, or its recordId is missing, not a
\* string or blank
BodyInvalid ==
  \/ req.body = Null
  \/ /\ req.body.t = "object"
     /\ \/ req.body.v.company.t # "object"
        \/ req.body.v.recordId.t # "string"
        \/ Trim(req.body.v.recordId.v) = <<>>

\* C17: an admitted request whose body has no company object, or whose
\* recordId is missing, not a string or blank, is answered with status 400;
\* no inference call and no record-store call is issued and no usage is
\* tracked for it.
C17_InvalidBodyRejectedWith400 ==
  (Admitted /\ BodyInvalid) =>
    /\ InferenceCalls = {}
    /\ StoreCalls = {}
    /\ CallsOf("track") = {}
    /\ Responded => resp.status = 400

\* the API key is missing, or the key lookup found no key
Unauthenticated ==
  \/ ~Truthy(req.apiKey)
  \/ \E i \in CallsOf("lookupKey") : ~calls[i].ok

\* the metering gate denied access
AccessDenied == \E i \in CallsOf("check") : ~calls[i].ok

\* C18: a request with a missing or invalid API key, with access denied by
\* the gate, or without any CRM credential header issues no inference call
\* and no record-store call, has no usage tracked, and is not answered with
\* a success.
C18_RejectedBeforeInference ==
  (Unauthenticated \/ AccessDenied \/ req.crm = "none") =>
    /\ InferenceCalls = {}
    /\ StoreCalls = {}
    /\ CallsOf("track") = {}
    /\ Responded => resp.status \in {400, 401, 403, 500}

\* a request with a valid key and body, admitted by the gate, without any
\* CRM credential header
C18_Witness ==
  /\ Responded
  /\ req.crm = "none"
  /\ ~BodyInvalid
  /\ resp.body.error = "CRM API key required"

\* the filter values of a parsed answer, each passed through the sanitizer
RECURSIVE SanitizeAll(_)
SanitizeAll(list) ==
  IF list = <<>> THEN <<>>
  ELSE <<Sanitize(Head(list))>> \o SanitizeAll(Tail(list))

\* C19: every filter value that the filter inference returned is sent to the
\* record store search as sanitize(v): the search request carries the
\* sanitized values of the parsed answer, in their order.
C19_SearchCarriesSanitizedValues ==
  \A i \in CallsOf("search") : calls[i].filters = SanitizeAll(duplicateSearch)

\* C20: the filter sanitizer is idempotent, sanitize(sanitize(s)) equals
\* sanitize(s) for every string s, and it returns a null value unchanged.
C20_SanitizeIdempotent ==
  /\ san.step = 2 => san.out2 = san.out
  /\ (san.step >= 1 /\ san.in = Null) => san.out = Null

\* the kinds of record store failure that the handler answers itself
StoreFailureKinds == {"search", "update", "merge", "mergeThrows"}

\* C25: the response to a failed record store call does not depend on the
\* text of the store's error: a response that is the failure body for one
\* error text is also the failure body for every other error text, so that
\* two runs that differ only in that text return the same body.
C25_StoreErrorTextNotReturned ==
  \A kind \in StoreFailureKinds : \A e1, e2 \in UpstreamErrors :
    (Responded /\ resp.body = StoreFailureBody(kind, e1)) =>
      resp.body = StoreFailureBody(kind, e2)

\* C26: every merge request eventually produces a response, also when the
\* record store never answers one of its calls.
C26_EveryRequestResponds == <>Responded

\* C27: when fetching the primary record fails, the request ends with
\* status 500, the failed fetch is its last external call, and neither the
\* field-merge inference nor an update or merge call has been issued.
C27_FetchFailureIsFatal ==
  \A i \in CallsOf("fetch") :
    Failed(i) =>
      /\ i = Len(calls)
      /\ resp.status = 500
      /\ StageCalls(3) = {}
      /\ UpdateCalls = {}
      /\ MergeCalls = {}

\* the fetch of the primary record failed after a MERGE decision that names
\* another record
C27_Witness ==
  /\ \E i \in CallsOf("fetch") : Failed(i)
  /\ Responded
  /\ mergeDecision.recommendedAction = "MERGE"
  /\ mergeDecision.primaryRecordId # recordId

\* the characters that sanitizeRule is to remove
RuleControlChars == {"{", "}", "[", "]", "<", ">", "\\"}

\* C30: for every input, the result of sanitizeRule is undefined or a
\* string of at most MAX_RULE_LENGTH characters without any of the
\* characters { } [ ] < > and backslash.
C30_SanitizeRuleResult ==
  rule.step = 1 =>
    \/ rule.out = Undef
    \/ /\ rule.out.t = "string"
       /\ RunLength(rule.out.v) <= MAX_RULE_LENGTH
       /\ \A i \in DOMAIN rule.out.v : rule.out.v[i].c \notin RuleControlChars

\* request r has built a step schema
Built(r) == sch.reqs[r].stage > 0
StageOf(r) == sch.reqs[r].stage
RulesOf(r) == sch.reqs[r].rules
SchemaOf(r) == sch.reqs[r].schema
BaseOf(r) == BaseTemplates[StageOf(r)]

IsPrefix(a, b) == Len(a) <= Len(b) /\ SubSeq(b, 1, Len(a)) = a

\* what a built description holds after the base description
AppendedText(base, built) == SubSeq(built, Len(base) + 1, Len(built))

NoControlChar(text) == \A i \in DOMAIN text : text[i] \notin RuleControlChars

\* C21: no description of a schema sent to the inference step holds, in the
\* text appended from the caller's rules, a brace, a bracket, an angle
\* bracket or a backslash.
C21_RuleTextStrippedBeforeEmbedding ==
  \A r \in Requests :
    Built(r) =>
      /\ NoControlChar(AppendedText(BaseOf(r).description, SchemaOf(r).description))
      /\ \A p \in DOMAIN BaseOf(r).properties :
           NoControlChar(AppendedText(BaseOf(r).properties[p].description,
                                      SchemaOf(r).properties[p].description))

\* C22: after any interleaving of the schema builds of the requests the
\* three templates equal their initial value, and the schema a request
\* has built is the one built from the initial template and its own rules.
C22_SchemaIsolation ==
  /\ sch.templates = BaseTemplates
  /\ \A r \in Requests :
       Built(r) => SchemaOf(r) = BuildSchema(StageOf(r), BaseOf(r), RulesOf(r))

\* two requests have built the schema of the same stage with different rule
\* texts, and a third build followed
C22_Witness ==
  \E r1, r2 \in Requests :
    /\ r1 # r2
    /\ StageOf(r1) = 3 /\ StageOf(r2) = 3
    /\ HasText(RulesOf(r1).text) /\ HasText(RulesOf(r2).text)
    /\ RulesOf(r1).text # RulesOf(r2).text
    /\ SchemaOf(r1) # SchemaOf(r2)

\* a rule text that is absent, empty or whitespace-only
BlankText(t) == t = Undef \/ (t.t = "string" /\ Trim(t.v) = <<>>)

\* mergePropertyRules is absent, or every entry of it is blank or not a string
NoPropertyRule(props) ==
  \/ props = Undef
  \/ /\ props.t = "object"
     /\ \A i \in DOMAIN props.v :
          props.v[i].rule.t # "string" \/ Trim(props.v[i].rule.v) = <<>>

\* C23: a schema built from blank rule text (and, for the field-merge
\* stage, from property rules that are all blank or not strings) equals the
\* base template of its stage.
C23_BlankRulesLeaveBase ==
  \A r \in Requests :
    (Built(r) /\ BlankText(RulesOf(r).text) /\ NoPropertyRule(RulesOf(r).props)) =>
      SchemaOf(r) = BaseOf(r)

\* a field-merge schema built from whitespace-only mergeRules and a
\* whitespace-only property rule
C23_Witness ==
  \E r \in Requests :
    /\ StageOf(r) = 3
    /\ RulesOf(r).text = Str(<<" ">>)
    /\ RulesOf(r).props.t = "object"
    /\ \E i \in DOMAIN RulesOf(r).props.v : RulesOf(r).props.v[i].rule = Str(<<" ">>)
    /\ SchemaOf(r) = MERGE_FIELD_SCHEMA

\* C24: a built schema differs from the base template of its stage only in
\* the top-level description and in the description of
\* primaryRecordPropertiesToUpdate, and those only by text appended to them.
C24_OnlyDescriptionsAppended ==
  \A r \in Requests :
    Built(r) =>
      LET s == SchemaOf(r)
          b == BaseOf(r)
      IN /\ s.type = b.type
         /\ s.required = b.required
         /\ s.additionalProperties = b.additionalProperties
         /\ DOMAIN s.properties = DOMAIN b.properties
         /\ IsPrefix(b.description, s.description)
         /\ \A p \in DOMAIN b.properties :
              /\ s.properties[p].type = b.properties[p].type
              /\ s.properties[p].enum = b.properties[p].enum
              /\ IsPrefix(b.properties[p].description, s.properties[p].description)
              /\ p # "primaryRecordPropertiesToUpdate" =>
                   s.properties[p].description = b.properties[p].description

\* a field-merge schema with both rule texts appended
C24_Witness ==
  \E r \in Requests :
    /\ StageOf(r) = 3
    /\ HasText(RulesOf(r).text)
    /\ PropertyRulesText(RulesOf(r).props) # <<>>
    /\ Len(SchemaOf(r).description) > Len(MERGE_FIELD_SCHEMA.description)
    /\ SchemaOf(r).properties.primaryRecordPropertiesToUpdate.description
         # MERGE_FIELD_SCHEMA.properties.primaryRecordPropertiesToUpdate.description

\* limit() calls the KV store answered with success and reset time t
AdmittedCalls(t) ==
  { c \in Callers : /\ lim.callers[c].result # Absent
                    /\ lim.callers[c].result[1].kv
                    /\ lim.callers[c].result[1].success
                    /\ lim.callers[c].result[1].reset = t }

ResetTimes ==
  { lim.callers[c].result[1].reset :
      c \in { d \in Callers : lim.callers[d].result # Absent } }

\* C28: whatever the interleaving of the concurrent limit() calls for one
\* identifier, at most maxRequests of the calls answered by the KV store
\* return success for one window
C28_LimitNotBypassed ==
  lim.on => \A t \in ResetTimes : Cardinality(AdmittedCalls(t)) <= lim.maxRequests

\* two requests of one user that carry the same idempotency key
SameKey(c, d) ==
  /\ c # d
  /\ idem.key[c] # <<>>
  /\ validateIdempotencyKey(idem.key[c])
  /\ idem.userId[c] = idem.userId[d]
  /\ idem.key[c] = idem.key[d]

\* C29: of two requests of one user with the same idempotency key at most one
\* executes the request body, whatever the interleaving
C29_SameKeyProcessedOnce ==
  idem.on =>
    \A c, d \in Clients :
      SameKey(c, d) => ~(idem.clients[c].processed /\ idem.clients[d].processed)

\* C31: every search request asks the record store for at least name, domain,
\* website, phone, city, state, zip, country, address, the social handle, the
\* creation timestamp and the last-modified timestamp
C31_SearchRequestsProperties ==
  \A i \in CallsOf("search") :
    {"name", "domain", "website", "phone", "city", "state", "zip", "country",
     "address", "linkedin", "createdate", "hs_lastmodifieddate"}
      \subseteq calls[i].props

\* C32: a request whose credential header names a provider that is not
\* implemented issues no inference call and no record-store call, tracks no
\* usage and does not end in success
C32_UnimplementedProviderFailsFast ==
  req.crm \notin {"none", "hubspot"} =>
    /\ InferenceCalls = {}
    /\ StoreCalls = {}
    /\ CallsOf("track") = {}
    /\ ~Success

\* C35: every update call and every merge call names as primary a record that
\* is among the other duplicates the search of the request returned
C35_WritesTargetSearchResults ==
  \A i \in UpdateCalls \cup MergeCalls :
    \E j \in DOMAIN otherDuplicates : otherDuplicates[j] = calls[i].id

\* C36: a success response carries recordUpdated and recordMerged; each is
\* true exactly when the update call, respectively the merge call, was issued
\* and returned successfully, so both are false on the exits before the apply
\* step
C36_AppliedFlagsMatchCalls ==
  Success =>
    /\ {"recordUpdated", "recordMerged"} \subseteq DOMAIN resp.body
    /\ resp.body.recordUpdated <=> \E i \in UpdateCalls : calls[i].ok
    /\ resp.body.recordMerged <=> \E i \in MergeCalls : calls[i].ok

\* C37: a merge request the gate admitted is charged no more credits than the
\* balance the gate reported as remaining when it admitted the request
C37_ChargeWithinReportedBalance ==
  ledger.on =>
    \A r \in Requests :
      ledger.reqs[r].pc \in {"track", "charged"} =>
        ledger.reqs[r].cost <= ledger.reqs[r].remaining

\* the calls of the clean handler with one of the operations
CleanCalls(ops) ==
  { i \in 1..Len(clean.calls) : clean.calls[i].op \in ops }

\* the record-store calls of the clean handler
CleanStoreCalls == CleanCalls({"exists", "fetch", "update"})

\* the request's API key is a stored key
CleanKeyValid == Truthy(clean.req.apiKey) /\ clean.req.keyStored

\* C38 (as claimed): a request to the clean endpoint whose API key is not a
\* valid stored key causes no call to the record store and is answered 401
C38_InvalidKeyNoStoreCall ==
  (clean.on /\ ~CleanKeyValid) =>
    /\ CleanStoreCalls = {}
    /\ clean.pc = "Done" => clean.status = 401

\* the schema sections of the clean request
SchemaSections ==
  {clean.schema.cleanedCompany, clean.schema.reasoning, clean.schema.confidence}

Trimmed(v) == IF v \in {Undef, Null} THEN Null ELSE Str(Trim(v.v))

\* the cleaned fields whose cleaned value is non-null and differs, after
\* trimming, from the caller's original value
ChangedFields ==
  { k \in DOMAIN clean.cleaned :
      /\ clean.cleaned[k] # Null
      /\ Trimmed(clean.cleaned[k]) # Trimmed(clean.req.company[k]) }

\* the field name in lower case
LowerCased(k) ==
  CASE k = "legalName" -> "legalname"
    [] k = "linkedIn" -> "linkedin"
    [] k = "postalCode" -> "postalcode"
    [] OTHER -> k

\* the write-back has read the stored record
WroteBack == clean.on /\ CleanCalls({"fetch"}) # {}

\* the properties of the update calls
WrittenSets == { clean.calls[i].props : i \in CleanCalls({"update"}) }

\* C33 (as claimed): the properties written are exactly the changed fields
\* whose name exists on the stored record; when that set is empty no update
\* call is issued and recordUpdated is false
C33_WritesChangedExistingFields ==
  WroteBack =>
    LET fields == { k \in ChangedFields : k \in clean.existing }
    IN /\ WrittenSets = IF fields = {} THEN {} ELSE {fields}
       /\ fields = {} => ~clean.recordUpdated

\* C33 (amended): the properties written are exactly the lower-cased names
\* of the changed fields whose lower-cased name exists on the stored record;
\* when that set is empty no update call is issued and recordUpdated is false
C33_WritesChangedLowerCasedFields ==
  WroteBack =>
    LET fields == { LowerCased(k) :
                      k \in { j \in ChangedFields :
                                LowerCased(j) \in clean.existing } }
    IN /\ WrittenSets = IF fields = {} THEN {} ELSE {fields}
       /\ fields = {} => ~clean.recordUpdated

C33_Witness ==
  /\ WroteBack
  /\ WrittenSets = {{"legalname"}}
  /\ "name" \in DOMAIN clean.cleaned
  /\ "name" \in clean.existing
  /\ clean.recordUpdated

\* the in-memory idempotency store is in use
InMemory == idem.on /\ ~idem.isKVAvailable

\* client c takes the step from one position of the protocol to the next
IdemStepOf(c, from) ==
  idem.clients[c].pc = from /\ idem'.clients[c].pc # from

\* the record stored for the user and the key of client c
RecordOf(c) == idem.records[IdempotencyKey(idem.userId[c], idem.key[c])]

\* C39: in the in-memory store, storeIdempotentResponse(k, u, status, body)
\* with a non-empty key stores status and body for (k, u) at the current time;
\* checkIdempotency(k, u) returns cached, with the stored status and body,
\* exactly while less than 24 hours have passed since the store; a cached
\* answer is the answer of a request of the same user with the same key; an
\* empty key is never stored and never answered from the cache
C39_InMemoryStoreContract ==
  /\ [](InMemory =>
          /\ \A c \in Clients :
               idem.clients[c].cached =>
                 /\ idem.key[c] # <<>>
                 /\ \E d \in Clients \ {c} :
                      /\ idem.clients[d].processed
                      /\ idem.userId[d] = idem.userId[c]
                      /\ idem.key[d] = idem.key[c]
                      /\ idem.clients[d].response = idem.clients[c].response
          /\ \A c \in Clients : idem.key[c] = <<>> => RecordOf(c) = Absent)
  /\ [][InMemory =>
          \A c \in Clients :
            /\ (IdemStepOf(c, "store") /\ idem.key[c] # <<>>) =>
                 idem'.records[IdempotencyKey(idem.userId[c], idem.key[c])] =
                   <<[responseStatus |-> idem.clients[c].response[1].status,
                      responseBody |-> idem.clients[c].response[1].body,
                      createdAt |-> idem.now]>>
            /\ IdemStepOf(c, "check") =>
                 LET live == /\ RecordOf(c) # Absent
                             /\ idem.now - RecordOf(c)[1].createdAt
                                  < 24 * 60 * 60 * 1000
                 IN /\ idem'.clients[c].cached <=> live
                    /\ live => idem'.clients[c].response =
                                 <<[status |-> RecordOf(c)[1].responseStatus,
                                    body |-> RecordOf(c)[1].responseBody]>>]_vars

\* a request is answered from the cache a millisecond before the record
\* stored for its user and key expires
C39_Witness ==
  /\ InMemory
  /\ \E c, d \in Clients :
       /\ idem.clients[c].cached
       /\ idem.clients[c].checkedAt = <<24 * 60 * 60 * 1000 - 1>>
       /\ idem.clients[d].processed
       /\ idem.clients[d].response = idem.clients[c].response

====
